---- MODULE Spec2Model ----
(***************************************************************************)
(* A model of the LMDB data adapter (packages/adapter-lmdb/adapter.ts):    *)
(* the namespace registry kept in the `meta` database, the cache `dbs` of   *)
(* opened databases, the document operations and the range lister.          *)
(*                                                                          *)
(* Every operation of the adapter is one action that models the whole       *)
(* handler.  The storage engine is modelled by what the adapter asks of it: *)
(* point get/put/remove, openDB (which creates a named database that does   *)
(* not exist), drop, and ordered range iteration.  Every engine call can    *)
(* fail; the input `fault` of an action names the call that throws.         *)
(*                                                                          *)
(* A write the adapter awaits is committed when the handler goes on.  The   *)
(* one write the adapter does not await, meta.remove in removeDatabase, is  *)
(* queued: it is committed by a later engine step (CommitPending) or by the *)
(* next awaited write, which the engine commits after it.                   *)
(*                                                                          *)
(* Overlapping calls are modelled in the section on concurrent handlers:    *)
(* there a handler is a sequence of steps, one for each stretch of code     *)
(* between two awaits, and the awaited writes wait in `queue` until the     *)
(* engine commits them in the order they were issued.                       *)
(***************************************************************************)
EXTENDS Integers, Sequences, FiniteSets, TLC

----------------------------------------------------------------------------
(* Bounds of the model. *)

\* The clock Date.now() takes the values 0..MaxClock.
MaxClock == 1

\* The aliases callers use.
Aliases == {"a", "b"}

\* The values Math.random() contributes to a generated name.
Rand == {0, 1}

----------------------------------------------------------------------------
(* Values and documents. *)

\* A JavaScript value: a number, a string (a sequence of character codes),
\* null, or the absence of a field.
Num(n) == [t |-> "num", v |-> <<n>>]
Str(s) == [t |-> "str", v |-> s]
Null == [t |-> "null", v |-> <<>>]
Absent == [t |-> "absent", v |-> <<>>]

\* The field names documents use.
Fields == {"_id", "x", "y"}

\* A document maps every field name to its value, Absent for a field the
\* document does not have.
EmptyDoc == [f \in Fields |-> Absent]

\* Ramda's has(field, doc).
has(f, doc) == doc[f] # Absent

\* An emptiness test that accepts every document.
isEmpty_never(doc) == FALSE

\* Ramda's isEmpty(doc): the document has no fields.
isEmpty(doc) == \A f \in Fields : ~has(f, doc)

Doc(id, x, y) == [f \in Fields |-> CASE f = "_id" -> id [] f = "x" -> x [] f = "y" -> y]

\* Document identifiers: non-empty strings.
Ids == {<<1>>, <<1, 1>>}

\* The documents callers pass to createDocument and updateDocument.
DocInputs == {EmptyDoc, Doc(Absent, Num(1), Absent), Doc(Absent, Num(2), Num(1))}

----------------------------------------------------------------------------
(* Result envelopes. *)

HyperErr(status, msg) == [ok |-> FALSE, status |-> status, msg |-> msg]

\* lmdbErrToHyperErr: an engine failure becomes status 500 with the engine's message.
lmdbErrToHyperErr(context) == HyperErr(500, "engine failure")

----------------------------------------------------------------------------
(* State. *)

VARIABLES
    meta,     \* the meta database: a function from meta keys to records
    dbs,      \* the cache of opened databases: alias -> handle (the name it was opened under)
    regions,  \* the named databases of the environment: name -> (id -> document)
    pending,  \* meta keys whose unawaited meta.remove is queued, not yet committed
    now,      \* Date.now()
    call,     \* the step taken last: the operation and its arguments
    ret,      \* what the last operation returned
    procs,    \* the handlers that run concurrently: caller -> position, locals, result
    queue     \* the awaited writes of those handlers, in the order they were issued

vars == <<meta, dbs, regions, pending, now, call, ret, procs, queue>>

\* The callers that have an operation under way at the same time.
Procs == {1, 2}

\* A caller with no operation under way.
Idle == [op |-> "none", db |-> "", id |-> <<>>, doc |-> EmptyDoc, pc |-> "idle",
         name |-> <<>>, cached |-> FALSE, ret |-> [ok |-> TRUE], with |-> {}]

\* getMetaKey: `db:${dbName}`; index records live under `index:${name}`.
getMetaKey(dbName) == <<"db", dbName>>

\* generateId: the clock and a random suffix.
generateId(t, r) == <<t, r>>

\* The store with the queued removals committed.
Flush(m, p) == [k \in DOMAIN m \ p |-> m[k]]

\* The documents of the database a handle refers to.
Contents(h) == IF h \in DOMAIN regions THEN regions[h] ELSE <<>>

\* rootDb.openDB(name): the named database exists afterwards.
openDB(rs, name) == IF name \in DOMAIN rs THEN rs ELSE [n \in DOMAIN rs \cup {name} |-> IF n = name THEN <<>> ELSE rs[n]]

\* db.drop(): the named database and its documents are gone.
drop(rs, name) == [n \in DOMAIN rs \ {name} |-> rs[n]]

\* A lookup that finds no record, whatever is stored.
metaHas_never(metaKey) == FALSE

\* meta.get(metaKey): whether a record is stored under the key.
metaHas(metaKey) == metaKey \in DOMAIN meta

\* An existence test that finds no document, whatever is stored.
docExists_never(h, id) == FALSE

\* db.get(id) !== undefined on the database named h.
docExists(h, id) == id \in DOMAIN Contents(h)

\* A read that wraps the stored value in a result envelope.
get_envelope(h, id) == [ok |-> TRUE, doc |-> Contents(h)[id]]

\* db.get(id) of a document that exists: the stored value.
get(h, id) == Contents(h)[id]

Init ==
    /\ meta = <<>>
    /\ dbs = <<>>
    /\ regions = <<>>
    /\ pending = {}
    /\ now = 0
    /\ call = [op |-> "init"]
    /\ ret = [ok |-> TRUE]
    /\ procs = [p \in Procs |-> Idle]
    /\ queue = <<>>

----------------------------------------------------------------------------
(* Engine steps. *)

\* Time passes.
Tick ==
    /\ now < MaxClock
    /\ now' = now + 1
    /\ UNCHANGED <<meta, dbs, regions, pending, call, ret, procs, queue>>

\* The engine commits the queued meta.remove calls.
CommitPending ==
    /\ pending # {}
    /\ meta' = Flush(meta, pending)
    /\ pending' = {}
    /\ UNCHANGED <<dbs, regions, now, call, ret, procs, queue>>

----------------------------------------------------------------------------
(* Namespace registry. *)

createDatabase(n, r, fault) ==
    LET metaKey == getMetaKey(n)
        actualName == generateId(now, r)
        dbInfo == [name |-> actualName, createdAt |-> now]
    IN  /\ call' = [op |-> "createDatabase", db |-> n]
        /\ UNCHANGED <<now, procs, queue>>
        /\ IF fault = "get"
             THEN /\ ret' = lmdbErrToHyperErr("createDatabase")
                  /\ UNCHANGED <<meta, dbs, regions, pending>>
           ELSE IF metaHas(metaKey)
             THEN /\ ret' = HyperErr(409, "database already exists")
                  /\ UNCHANGED <<meta, dbs, regions, pending>>
           ELSE IF fault = "put"
             THEN /\ ret' = lmdbErrToHyperErr("createDatabase")
                  /\ UNCHANGED <<meta, dbs, regions, pending>>
           ELSE IF fault = "open"
             THEN /\ meta' = [k \in DOMAIN Flush(meta, pending) \cup {metaKey} |->
                                 IF k = metaKey THEN dbInfo ELSE meta[k]]
                  /\ pending' = {}
                  /\ ret' = lmdbErrToHyperErr("createDatabase")
                  /\ UNCHANGED <<dbs, regions>>
           ELSE   /\ meta' = [k \in DOMAIN Flush(meta, pending) \cup {metaKey} |->
                                 IF k = metaKey THEN dbInfo ELSE meta[k]]
                  /\ pending' = {}
                  /\ regions' = openDB(regions, actualName)
                  /\ dbs' = [a \in DOMAIN dbs \cup {n} |-> IF a = n THEN actualName ELSE dbs[a]]
                  /\ ret' = [ok |-> TRUE]

\* removeDatabase.  The fault "remove" is meta.remove throwing when it is
\* called; the fault "commit" is the engine failing to commit the removal
\* later: the call is not awaited, so the handler has returned by then and the
\* record stays.
removeDatabase(n, fault) ==
    LET metaKey == getMetaKey(n)
    IN  /\ call' = [op |-> "removeDatabase", db |-> n]
        /\ UNCHANGED <<now, procs, queue>>
        /\ IF fault = "get"
             THEN /\ ret' = lmdbErrToHyperErr("removeDatabase")
                  /\ UNCHANGED <<meta, dbs, regions, pending>>
           ELSE IF ~metaHas(metaKey)
             THEN /\ ret' = HyperErr(404, "database not found")
                  /\ UNCHANGED <<meta, dbs, regions, pending>>
           ELSE IF n \in DOMAIN dbs
             THEN IF fault = "drop"
                    THEN /\ ret' = lmdbErrToHyperErr("removeDatabase")
                         /\ UNCHANGED <<meta, dbs, regions, pending>>
                    ELSE /\ regions' = drop(regions, dbs[n])
                         /\ dbs' = [a \in DOMAIN dbs \ {n} |-> dbs[a]]
                         /\ meta' = Flush(meta, pending)
                         /\ pending' = IF fault \in {"remove", "commit"} THEN {} ELSE {metaKey}
                         /\ ret' = IF fault = "remove" THEN lmdbErrToHyperErr("removeDatabase")
                                   ELSE [ok |-> TRUE]
           ELSE IF fault = "open"
             THEN /\ ret' = lmdbErrToHyperErr("removeDatabase")
                  /\ UNCHANGED <<meta, dbs, regions, pending>>
           ELSE IF fault = "drop"
             THEN /\ regions' = openDB(regions, meta[metaKey].name)
                  /\ ret' = lmdbErrToHyperErr("removeDatabase")
                  /\ UNCHANGED <<meta, dbs, pending>>
           ELSE   /\ regions' = drop(regions, meta[metaKey].name)
                  /\ meta' = Flush(meta, pending)
                  /\ pending' = IF fault \in {"remove", "commit"} THEN {} ELSE {metaKey}
                  /\ ret' = IF fault = "remove" THEN lmdbErrToHyperErr("removeDatabase")
                            ELSE [ok |-> TRUE]
                  /\ UNCHANGED dbs

----------------------------------------------------------------------------
(* Document store accessor. *)

\* The value of a missing name or handle (null).
NoName == <<>>

\* resolveDbName: the name in the alias's metadata record, or null.
resolveDbName(alias) ==
    IF metaHas(getMetaKey(alias)) THEN meta[getMetaKey(alias)].name ELSE NoName

\* getDb: the cached handle, or the database opened under the resolved name
\* and cached, or null.  `failed` says that the engine call named by `fault`
\* threw on the way.
getDb(alias, fault) ==
    IF alias \in DOMAIN dbs
      THEN [failed |-> FALSE, db |-> dbs[alias], dbs |-> dbs, regions |-> regions]
    ELSE IF fault = "get"
      THEN [failed |-> TRUE, db |-> NoName, dbs |-> dbs, regions |-> regions]
    ELSE IF resolveDbName(alias) = NoName
      THEN [failed |-> FALSE, db |-> NoName, dbs |-> dbs, regions |-> regions]
    ELSE IF fault = "open"
      THEN [failed |-> TRUE, db |-> NoName, dbs |-> dbs, regions |-> regions]
    ELSE [failed |-> FALSE,
          db |-> resolveDbName(alias),
          dbs |-> [a \in DOMAIN dbs \cup {alias} |->
                      IF a = alias THEN resolveDbName(alias) ELSE dbs[a]],
          regions |-> openDB(regions, resolveDbName(alias))]

\* A put that merges the new fields into the value already stored.
put_merge(rs, h, id, doc) ==
    [n \in DOMAIN rs \cup {h} |->
        IF n = h
          THEN [i \in DOMAIN Contents(h) \cup {id} |->
                   IF i # id THEN Contents(h)[i]
                   ELSE IF id \in DOMAIN Contents(h)
                     THEN [f \in Fields |-> IF has(f, doc) THEN doc[f] ELSE Contents(h)[id][f]]
                   ELSE doc]
          ELSE rs[n]]

\* db.put(id, doc) on the database named h.
put(rs, h, id, doc) ==
    [n \in DOMAIN rs \cup {h} |->
        IF n = h
          THEN [i \in DOMAIN Contents(h) \cup {id} |-> IF i = id THEN doc ELSE Contents(h)[i]]
          ELSE rs[n]]

\* A remove that deletes nothing.
remove_nothing(rs, h, id) == rs

\* db.remove(id) on the database named h.
remove(rs, h, id) ==
    [n \in DOMAIN rs \cup {h} |->
        IF n = h
          THEN [i \in DOMAIN Contents(h) \ {id} |-> Contents(h)[i]]
          ELSE rs[n]]

----------------------------------------------------------------------------
(* CRUD operations. *)

createDocument(dbName, id, doc, fault) ==
    LET g == getDb(dbName, fault)
    IN  /\ call' = [op |-> "createDocument", db |-> dbName, id |-> id, doc |-> doc]
        /\ UNCHANGED <<now, procs, queue>>
        /\ IF isEmpty(doc)
             THEN /\ ret' = HyperErr(400, "document empty")
                  /\ UNCHANGED <<meta, dbs, regions, pending>>
           ELSE IF g.failed
             THEN /\ ret' = lmdbErrToHyperErr("createDocument")
                  /\ UNCHANGED <<meta, dbs, regions, pending>>
           ELSE IF g.db = NoName
             THEN /\ ret' = HyperErr(404, "database not found")
                  /\ UNCHANGED <<meta, dbs, regions, pending>>
           ELSE IF fault = "read"
             THEN /\ ret' = lmdbErrToHyperErr("createDocument")
                  /\ dbs' = g.dbs
                  /\ regions' = g.regions
                  /\ UNCHANGED <<meta, pending>>
           ELSE IF docExists(g.db, id)
             THEN /\ ret' = HyperErr(409, "document conflict")
                  /\ dbs' = g.dbs
                  /\ regions' = g.regions
                  /\ UNCHANGED <<meta, pending>>
           ELSE IF fault = "put"
             THEN /\ ret' = lmdbErrToHyperErr("createDocument")
                  /\ dbs' = g.dbs
                  /\ regions' = g.regions
                  /\ UNCHANGED <<meta, pending>>
           ELSE   /\ dbs' = g.dbs
                  /\ regions' = put(g.regions, g.db, id, doc)
                  /\ meta' = Flush(meta, pending)
                  /\ pending' = {}
                  /\ ret' = [ok |-> TRUE, id |-> id]

retrieveDocument(dbName, id, fault) ==
    LET g == getDb(dbName, fault)
    IN  /\ call' = [op |-> "retrieveDocument", db |-> dbName, id |-> id]
        /\ UNCHANGED <<now, meta, pending, procs, queue>>
        /\ IF g.failed
             THEN /\ ret' = lmdbErrToHyperErr("retrieveDocument")
                  /\ UNCHANGED <<dbs, regions>>
           ELSE IF g.db = NoName
             THEN /\ ret' = HyperErr(404, "database not found")
                  /\ UNCHANGED <<dbs, regions>>
           ELSE   /\ dbs' = g.dbs
                  /\ regions' = g.regions
                  /\ ret' = IF fault = "read" THEN lmdbErrToHyperErr("retrieveDocument")
                            ELSE IF ~docExists(g.db, id)
                              THEN HyperErr(404, "document not found")
                            ELSE get(g.db, id)

updateDocument(dbName, id, doc, fault) ==
    LET g == getDb(dbName, fault)
    IN  /\ call' = [op |-> "updateDocument", db |-> dbName, id |-> id, doc |-> doc]
        /\ UNCHANGED <<now, procs, queue>>
        /\ IF g.failed
             THEN /\ ret' = lmdbErrToHyperErr("updateDocument")
                  /\ UNCHANGED <<meta, dbs, regions, pending>>
           ELSE IF g.db = NoName
             THEN /\ ret' = HyperErr(404, "database not found")
                  /\ UNCHANGED <<meta, dbs, regions, pending>>
           ELSE IF fault = "put"
             THEN /\ ret' = lmdbErrToHyperErr("updateDocument")
                  /\ dbs' = g.dbs
                  /\ regions' = g.regions
                  /\ UNCHANGED <<meta, pending>>
           ELSE   /\ dbs' = g.dbs
                  /\ regions' = put(g.regions, g.db, id, doc)
                  /\ meta' = Flush(meta, pending)
                  /\ pending' = {}
                  /\ ret' = [ok |-> TRUE, id |-> id]

removeDocument(dbName, id, fault) ==
    LET g == getDb(dbName, fault)
    IN  /\ call' = [op |-> "removeDocument", db |-> dbName, id |-> id]
        /\ UNCHANGED <<now, procs, queue>>
        /\ IF g.failed
             THEN /\ ret' = lmdbErrToHyperErr("removeDocument")
                  /\ UNCHANGED <<meta, dbs, regions, pending>>
           ELSE IF g.db = NoName
             THEN /\ ret' = HyperErr(404, "database not found")
                  /\ UNCHANGED <<meta, dbs, regions, pending>>
           ELSE IF fault = "read"
             THEN /\ ret' = lmdbErrToHyperErr("removeDocument")
                  /\ dbs' = g.dbs
                  /\ regions' = g.regions
                  /\ UNCHANGED <<meta, pending>>
           ELSE IF ~docExists(g.db, id)
             THEN /\ ret' = HyperErr(404, "document not found")
                  /\ dbs' = g.dbs
                  /\ regions' = g.regions
                  /\ UNCHANGED <<meta, pending>>
           ELSE IF fault = "remove"
             THEN /\ ret' = lmdbErrToHyperErr("removeDocument")
                  /\ dbs' = g.dbs
                  /\ regions' = g.regions
                  /\ UNCHANGED <<meta, pending>>
           ELSE   /\ dbs' = g.dbs
                  /\ regions' = remove(g.regions, g.db, id)
                  /\ meta' = Flush(meta, pending)
                  /\ pending' = {}
                  /\ ret' = [ok |-> TRUE, id |-> id]

----------------------------------------------------------------------------
(* Range lister. *)

\* The character U+FFFF appended to endkey, and the separator of `keys`.
UFFFF == 65535
Comma == 44

\* The order of keys in the engine: strings compare character by character,
\* and a proper prefix comes first.
LexLess(s, t) ==
    \E k \in 1..(Len(t)) :
        /\ \A j \in 1..(k - 1) : j <= Len(s) /\ s[j] = t[j]
        /\ \/ Len(s) = k - 1
           \/ Len(s) >= k /\ s[k] < t[k]

LexLeq(s, t) == s = t \/ LexLess(s, t)

\* The keys of a set in ascending order.
RECURSIVE SortKeys(_)
SortKeys(S) ==
    IF S = {} THEN <<>>
    ELSE LET m == CHOOSE k \in S : \A o \in S : LexLeq(k, o)
         IN  <<m>> \o SortKeys(S \ {m})

Reverse(seq) == [i \in 1..Len(seq) |-> seq[Len(seq) + 1 - i]]

\* A range whose start is exclusive.
getRange_openStart(h, start, end, reverse) ==
    LET all == DOMAIN Contents(h)
        fwd == {k \in all : (start = <<>> \/ LexLess(start, k)) /\ (end = <<>> \/ LexLess(k, end))}
        bwd == {k \in all : (start = <<>> \/ LexLess(k, start)) /\ (end = <<>> \/ LexLess(end, k))}
    IN  IF reverse THEN Reverse(SortKeys(bwd)) ELSE SortKeys(fwd)

\* db.getRange({start, end, reverse}): the keys of the database from `start`
\* (inclusive) up to `end` (exclusive) in the direction of the iteration; an
\* empty bound is no bound.
getRange(h, start, end, reverse) ==
    LET all == DOMAIN Contents(h)
        fwd == {k \in all : (start = <<>> \/ LexLeq(start, k)) /\ (end = <<>> \/ LexLess(k, end))}
        bwd == {k \in all : (start = <<>> \/ LexLeq(k, start)) /\ (end = <<>> \/ LexLess(end, k))}
    IN  IF reverse THEN Reverse(SortKeys(bwd)) ELSE SortKeys(fwd)

\* String.prototype.split(sep).
RECURSIVE split(_, _)
split(s, sep) ==
    IF \A i \in 1..Len(s) : s[i] # sep THEN <<s>>
    ELSE LET k == CHOOSE i \in 1..Len(s) : s[i] = sep /\ \A j \in 1..(i - 1) : s[j] # sep
         IN  <<SubSeq(s, 1, k - 1)>> \o split(SubSeq(s, k + 1, Len(s)), sep)

\* Array.prototype.includes.
includes(arr, x) == \E i \in 1..Len(arr) : arr[i] = x

\* { _id: key, ...doc }: the stored value's own fields come last.
withId(key, doc) == [doc EXCEPT !["_id"] = IF has("_id", doc) THEN doc["_id"] ELSE Str(key)]

\* The loop of listDocuments over the keys of the range: skip the keys not in
\* keysList, push the others, stop once `limit` documents are pushed.
RECURSIVE listLoop(_, _, _, _, _)
listLoop(h, ks, keysList, limit, docs) ==
    IF ks = <<>> THEN docs
    ELSE IF keysList # <<>> /\ ~includes(keysList, Head(ks))
      THEN listLoop(h, Tail(ks), keysList, limit, docs)
    ELSE LET pushed == Append(docs, withId(Head(ks), Contents(h)[Head(ks)]))
         IN  IF limit # 0 /\ Len(pushed) >= limit THEN pushed
             ELSE listLoop(h, Tail(ks), keysList, limit, pushed)

\* The options of listDocuments; an empty string or a limit of 0 is an option
\* that is not given.
ListOpts(limit, startkey, endkey, keys, descending) ==
    [limit |-> limit, startkey |-> startkey, endkey |-> endkey, keys |-> keys,
     descending |-> descending]

NoOpts == ListOpts(0, <<>>, <<>>, <<>>, FALSE)

listDocuments(dbName, o, fault) ==
    LET g == getDb(dbName, fault)
        keysList == IF o.keys # <<>> THEN split(o.keys, Comma) ELSE <<>>
        start == o.startkey
        end == IF o.endkey # <<>> THEN Append(o.endkey, UFFFF) ELSE <<>>
    IN  /\ call' = [op |-> "listDocuments", db |-> dbName, opts |-> o]
        /\ UNCHANGED <<now, meta, pending, procs, queue>>
        /\ IF g.failed
             THEN /\ ret' = lmdbErrToHyperErr("listDocuments")
                  /\ UNCHANGED <<dbs, regions>>
           ELSE IF g.db = NoName
             THEN /\ ret' = HyperErr(404, "database not found")
                  /\ UNCHANGED <<dbs, regions>>
           ELSE   /\ dbs' = g.dbs
                  /\ regions' = g.regions
                  /\ ret' = IF fault = "range" THEN lmdbErrToHyperErr("listDocuments")
                            ELSE [ok |-> TRUE,
                                  docs |-> listLoop(g.db, getRange(g.db, start, end, o.descending),
                                                    keysList, o.limit, <<>>)]

----------------------------------------------------------------------------
(* Selector query engine. *)

\* JavaScript's ToNumber for the values of the model; the characters of the
\* model's strings are letters, so only the empty string is numeric.
ToNumber(v) ==
    CASE v.t = "num" -> [nan |-> FALSE, n |-> v.v[1]]
      [] v.t = "null" -> [nan |-> FALSE, n |-> 0]
      [] v.t = "str" /\ v.v = <<>> -> [nan |-> FALSE, n |-> 0]
      [] OTHER -> [nan |-> TRUE, n |-> 0]

\* JavaScript's a < b, a > b, a <= b, a >= b.
jsLt(a, b) ==
    IF a.t = "str" /\ b.t = "str" THEN LexLess(a.v, b.v)
    ELSE ~ToNumber(a).nan /\ ~ToNumber(b).nan /\ ToNumber(a).n < ToNumber(b).n
jsGt(a, b) == jsLt(b, a)
jsLte(a, b) ==
    IF a.t = "str" /\ b.t = "str" THEN ~LexLess(b.v, a.v)
    ELSE ~ToNumber(a).nan /\ ~ToNumber(b).nan /\ ToNumber(a).n <= ToNumber(b).n
jsGte(a, b) == jsLte(b, a)

\* A condition of a selector: null or undefined ("nil"), a literal, or an
\* object, whose recognised operators are the domain of `ops`.
NilCond == [kind |-> "nil", val |-> Absent, ops |-> <<>>]
Lit(v) == [kind |-> "lit", val |-> v, ops |-> <<>>]
Ops(o) == [kind |-> "ops", val |-> Absent, ops |-> o]

\* The operand of an operator: a value, an array of values, or a boolean.
Operand(v) == [v |-> v, arr |-> <<>>, b |-> FALSE]
ArrayOperand(arr) == [v |-> Absent, arr |-> arr, b |-> FALSE]
BoolOperand(b) == [v |-> Absent, arr |-> <<>>, b |-> b]

\* The checks of one operator object against the value of the field.
matchesOps(f, doc, o) ==
    LET docValue == doc[f]
        on(op) == op \in DOMAIN o
    IN  /\ on("$eq") => docValue = o["$eq"].v
        /\ on("$ne") => docValue # o["$ne"].v
        /\ on("$gt") => jsGt(docValue, o["$gt"].v)
        /\ on("$gte") => jsGte(docValue, o["$gte"].v)
        /\ on("$lt") => jsLt(docValue, o["$lt"].v)
        /\ on("$lte") => jsLte(docValue, o["$lte"].v)
        /\ on("$in") => includes(o["$in"].arr, docValue)
        /\ on("$nin") => ~includes(o["$nin"].arr, docValue)
        /\ on("$exists") => (o["$exists"].b = has(f, doc))

\* A selector read as a disjunction: some field of the selector passes.
matchesSelector_any(doc, selector) ==
    \E f \in DOMAIN selector :
        LET condition == selector[f]
        IN  CASE condition.kind = "nil" -> doc[f] \in {Null, Absent}
              [] condition.kind = "ops" -> matchesOps(f, doc, condition.ops)
              [] OTHER -> doc[f] = condition.val

\* A selector whose null condition is compared by strict equality with null.
matchesSelector_strictNull(doc, selector) ==
    \A f \in DOMAIN selector :
        LET condition == selector[f]
        IN  CASE condition.kind = "nil" -> doc[f] = Null
              [] condition.kind = "ops" -> matchesOps(f, doc, condition.ops)
              [] OTHER -> doc[f] = condition.val

\* A selector that compares the value with an object holding no recognised
\* operator as with a literal, which no value of a document is equal to.
matchesSelector_objectLiteral(doc, selector) ==
    \A f \in DOMAIN selector :
        LET condition == selector[f]
        IN  CASE condition.kind = "nil" -> doc[f] \in {Null, Absent}
              [] condition.kind = "ops" ->
                    DOMAIN condition.ops # {} /\ matchesOps(f, doc, condition.ops)
              [] OTHER -> doc[f] = condition.val

\* matchesSelector: every field of the selector passes.
matchesSelector(doc, selector) ==
    \A f \in DOMAIN selector :
        LET condition == selector[f]
        IN  CASE condition.kind = "nil" -> doc[f] \in {Null, Absent}
              [] condition.kind = "ops" -> matchesOps(f, doc, condition.ops)
              [] OTHER -> doc[f] = condition.val

\* String.prototype.localeCompare: -1, 0 or 1, in the order of the characters.
localeCompare(s, t) == IF s = t THEN 0 ELSE IF LexLess(s, t) THEN -1 ELSE 1

\* The comparator of sortDocs from the k-th sort key on.
RECURSIVE compare(_, _, _, _)
compare(a, b, sort, k) ==
    IF k > Len(sort) THEN 0
    ELSE LET aVal == a[sort[k].field]
             bVal == b[sort[k].field]
             cmp == IF aVal \in {Absent, Null} THEN -1
                    ELSE IF bVal \in {Absent, Null} THEN 1
                    ELSE IF aVal.t = "str" /\ bVal.t = "str" THEN localeCompare(aVal.v, bVal.v)
                    ELSE IF aVal.t = "num" /\ bVal.t = "num" THEN aVal.v[1] - bVal.v[1]
                    ELSE 0
         IN  IF aVal = bVal THEN compare(a, b, sort, k + 1)
             ELSE IF sort[k].direction = "DESC" THEN 0 - cmp ELSE cmp

\* Array.prototype.sort as the engine runs it on an array shorter than its
\* minimal run length, which every result of the model is: the run at the
\* front of the array is found (and reversed when it descends strictly), then
\* each later element is put in its place by binary insertion.  With a
\* comparator that is a consistent order this is the stable sort.
RECURSIVE runFrom(_, _, _, _)
runFrom(docs, sort, isDescending, idx) ==
    IF idx > Len(docs) THEN Len(docs)
    ELSE LET order == compare(docs[idx], docs[idx - 1], sort, 1)
         IN  IF (isDescending /\ order >= 0) \/ (~isDescending /\ order < 0)
               THEN idx - 1
             ELSE runFrom(docs, sort, isDescending, idx + 1)

countAndMakeRun(docs, sort) ==
    IF Len(docs) < 2 THEN [docs |-> docs, runLength |-> Len(docs)]
    ELSE LET isDescending == compare(docs[2], docs[1], sort, 1) < 0
             runLength == runFrom(docs, sort, isDescending, 3)
         IN  [docs |-> IF isDescending
                         THEN Reverse(SubSeq(docs, 1, runLength)) \o SubSeq(docs, runLength + 1, Len(docs))
                       ELSE docs,
              runLength |-> runLength]

\* The number of elements of docs[1..right] that stay before the pivot.
RECURSIVE binarySearch(_, _, _, _, _)
binarySearch(docs, sort, pivot, left, right) ==
    IF left >= right THEN left
    ELSE LET mid == left + ((right - left) \div 2)
         IN  IF compare(pivot, docs[mid + 1], sort, 1) < 0
               THEN binarySearch(docs, sort, pivot, left, mid)
             ELSE binarySearch(docs, sort, pivot, mid + 1, right)

RECURSIVE binaryInsertionSort(_, _, _)
binaryInsertionSort(docs, sort, start) ==
    IF start >= Len(docs) THEN docs
    ELSE LET pivot == docs[start + 1]
             left == binarySearch(docs, sort, pivot, 0, start)
         IN  binaryInsertionSort(SubSeq(docs, 1, left) \o <<pivot>> \o SubSeq(docs, left + 1, start)
                                     \o SubSeq(docs, start + 2, Len(docs)),
                                 sort, start + 1)

sortFrom(docs, sort) ==
    LET run == countAndMakeRun(docs, sort)
    IN  binaryInsertionSort(run.docs, sort, run.runLength)

sortDocs(docs, sort) == IF sort = <<>> THEN docs ELSE sortFrom(docs, sort)

\* A projection that keeps _id whether it is named or not.
projectFields_withId(doc, fields) ==
    IF fields = <<>> THEN doc
    ELSE [f \in Fields |-> IF (f = "_id" \/ \E i \in 1..Len(fields) : fields[i] = f) /\ has(f, doc)
                             THEN doc[f] ELSE Absent]

\* projectFields: the named fields the document has.
projectFields(doc, fields) ==
    IF fields = <<>> THEN doc
    ELSE [f \in Fields |-> IF (\E i \in 1..Len(fields) : fields[i] = f) /\ has(f, doc)
                             THEN doc[f] ELSE Absent]

\* Array.prototype.slice(from, to).
sliceIndex(i, n) == IF i < 0 THEN (IF n + i < 0 THEN 0 ELSE n + i) ELSE (IF i > n THEN n ELSE i)
slice(seq, from, to) == SubSeq(seq, sliceIndex(from, Len(seq)) + 1, sliceIndex(to, Len(seq)))

\* A scan that tests the selector on the document with its key merged in.
RECURSIVE scan_merged(_, _, _)
scan_merged(h, ks, selector) ==
    IF ks = <<>> THEN <<>>
    ELSE IF ~matchesSelector(withId(Head(ks), Contents(h)[Head(ks)]), selector)
      THEN scan_merged(h, Tail(ks), selector)
    ELSE <<withId(Head(ks), Contents(h)[Head(ks)])>> \o scan_merged(h, Tail(ks), selector)

\* The scan of queryDocuments: the matching documents in key order.
RECURSIVE scan(_, _, _)
scan(h, ks, selector) ==
    IF ks = <<>> THEN <<>>
    ELSE IF ~matchesSelector(Contents(h)[Head(ks)], selector)
      THEN scan(h, Tail(ks), selector)
    ELSE <<withId(Head(ks), Contents(h)[Head(ks)])>> \o scan(h, Tail(ks), selector)

\* A query; an empty selector, fields or sort, or a skip or limit of 0, is one
\* that is not given.
Query(selector, fields, sort, limit, skip) ==
    [selector |-> selector, fields |-> fields, sort |-> sort, limit |-> limit, skip |-> skip]

\* The query with its limit taken before its skip.
runQuery_limitFirst(h, query) ==
    LET filtered == scan(h, getRange(h, <<>>, <<>>, FALSE), query.selector)
        sorted == sortDocs(filtered, query.sort)
        limited == IF query.limit # 0 THEN slice(sorted, 0, query.limit) ELSE sorted
        skipped == IF query.skip # 0 THEN slice(limited, query.skip, Len(limited)) ELSE limited
    IN  [i \in 1..Len(skipped) |-> projectFields(skipped[i], query.fields)]

runQuery(h, query) ==
    LET filtered == scan(h, getRange(h, <<>>, <<>>, FALSE), query.selector)
        sorted == sortDocs(filtered, query.sort)
        skipped == IF query.skip # 0 THEN slice(sorted, query.skip, Len(sorted)) ELSE sorted
        limited == IF query.limit # 0 THEN slice(skipped, 0, query.limit) ELSE skipped
    IN  [i \in 1..Len(limited) |-> projectFields(limited[i], query.fields)]

queryDocuments(dbName, query, fault) ==
    LET g == getDb(dbName, fault)
    IN  /\ call' = [op |-> "queryDocuments", db |-> dbName, query |-> query]
        /\ UNCHANGED <<now, meta, pending, procs, queue>>
        /\ IF g.failed
             THEN /\ ret' = lmdbErrToHyperErr("queryDocuments")
                  /\ UNCHANGED <<dbs, regions>>
           ELSE IF g.db = NoName
             THEN /\ ret' = HyperErr(404, "database not found")
                  /\ UNCHANGED <<dbs, regions>>
           ELSE   /\ dbs' = g.dbs
                  /\ regions' = g.regions
                  /\ ret' = IF fault = "range" THEN lmdbErrToHyperErr("queryDocuments")
                            ELSE [ok |-> TRUE, docs |-> runQuery(g.db, query)]

----------------------------------------------------------------------------
(* Index registration. *)

\* `index:${name}`.
indexKey(name) == <<"index", name>>

\* An index record that is stored under the key of the namespace record of
\* its name.
indexDocuments_underAlias(dbName, name, fields, partialFilter, fault) ==
    LET g == getDb(dbName, fault)
        rec == [db |-> dbName, fields |-> fields, partialFilter |-> partialFilter,
                createdAt |-> now]
    IN  /\ call' = [op |-> "indexDocuments", db |-> dbName, name |-> name]
        /\ UNCHANGED <<now, procs, queue>>
        /\ IF g.failed
             THEN /\ ret' = lmdbErrToHyperErr("indexDocuments")
                  /\ UNCHANGED <<meta, dbs, regions, pending>>
           ELSE IF g.db = NoName
             THEN /\ ret' = HyperErr(404, "database not found")
                  /\ UNCHANGED <<meta, dbs, regions, pending>>
           ELSE IF fault = "put"
             THEN /\ ret' = lmdbErrToHyperErr("indexDocuments")
                  /\ dbs' = g.dbs
                  /\ regions' = g.regions
                  /\ UNCHANGED <<meta, pending>>
           ELSE   /\ dbs' = g.dbs
                  /\ regions' = g.regions
                  /\ meta' = [k \in DOMAIN Flush(meta, pending) \cup {getMetaKey(name)} |->
                                 IF k = getMetaKey(name) THEN rec ELSE meta[k]]
                  /\ pending' = {}
                  /\ ret' = [ok |-> TRUE]

indexDocuments(dbName, name, fields, partialFilter, fault) ==
    LET g == getDb(dbName, fault)
        rec == [db |-> dbName, fields |-> fields, partialFilter |-> partialFilter,
                createdAt |-> now]
    IN  /\ call' = [op |-> "indexDocuments", db |-> dbName, name |-> name]
        /\ UNCHANGED <<now, procs, queue>>
        /\ IF g.failed
             THEN /\ ret' = lmdbErrToHyperErr("indexDocuments")
                  /\ UNCHANGED <<meta, dbs, regions, pending>>
           ELSE IF g.db = NoName
             THEN /\ ret' = HyperErr(404, "database not found")
                  /\ UNCHANGED <<meta, dbs, regions, pending>>
           ELSE IF fault = "put"
             THEN /\ ret' = lmdbErrToHyperErr("indexDocuments")
                  /\ dbs' = g.dbs
                  /\ regions' = g.regions
                  /\ UNCHANGED <<meta, pending>>
           ELSE   /\ dbs' = g.dbs
                  /\ regions' = g.regions
                  /\ meta' = [k \in DOMAIN Flush(meta, pending) \cup {indexKey(name)} |->
                                 IF k = indexKey(name) THEN rec ELSE meta[k]]
                  /\ pending' = {}
                  /\ ret' = [ok |-> TRUE]

----------------------------------------------------------------------------
(* Bulk transaction executor. *)

\* JavaScript's !v for the values of the model.
falsy(v) == v \in {Absent, Null, Str(<<>>), Num(0)}

\* A loop that stops at the first item without identifier.
RECURSIVE bulkLoop_abort(_, _, _, _, _)
bulkLoop_abort(h, docs, bad, k, acc) ==
    IF k > Len(docs) THEN acc
    ELSE LET doc == docs[k]
             id == doc["_id"]
         IN  IF falsy(id)
               THEN [acc EXCEPT !.results = Append(@, [ok |-> FALSE, id |-> <<>>,
                                                       msg |-> "document missing _id"])]
             ELSE IF k \in bad
               THEN bulkLoop_abort(h, docs, bad, k + 1,
                        [acc EXCEPT !.results = Append(@, [ok |-> FALSE, id |-> id.v,
                                                           msg |-> "engine failure"])])
             ELSE bulkLoop_abort(h, docs, bad, k + 1,
                        [store |-> [i \in DOMAIN acc.store \cup {id.v} |->
                                       IF i = id.v THEN doc ELSE acc.store[i]],
                         results |-> Append(acc.results, [ok |-> TRUE, id |-> id.v])])

\* A loop that leaves an item without identifier out of the results.
RECURSIVE bulkLoop_unreported(_, _, _, _, _)
bulkLoop_unreported(h, docs, bad, k, acc) ==
    IF k > Len(docs) THEN acc
    ELSE LET doc == docs[k]
             id == doc["_id"]
         IN  IF falsy(id)
               THEN bulkLoop_unreported(h, docs, bad, k + 1, acc)
             ELSE IF k \in bad
               THEN bulkLoop_unreported(h, docs, bad, k + 1,
                        [acc EXCEPT !.results = Append(@, [ok |-> FALSE, id |-> id.v,
                                                           msg |-> "engine failure"])])
             ELSE bulkLoop_unreported(h, docs, bad, k + 1,
                        [store |-> [i \in DOMAIN acc.store \cup {id.v} |->
                                       IF i = id.v THEN doc ELSE acc.store[i]],
                         results |-> Append(acc.results, [ok |-> TRUE, id |-> id.v])])

\* A loop whose put keeps the value of an identifier that is already stored.
RECURSIVE bulkLoop_keepFirst(_, _, _, _, _)
bulkLoop_keepFirst(h, docs, bad, k, acc) ==
    IF k > Len(docs) THEN acc
    ELSE LET doc == docs[k]
             id == doc["_id"]
         IN  IF falsy(id)
               THEN bulkLoop_keepFirst(h, docs, bad, k + 1,
                        [acc EXCEPT !.results = Append(@, [ok |-> FALSE, id |-> <<>>,
                                                       msg |-> "document missing _id"])])
             ELSE IF k \in bad
               THEN bulkLoop_keepFirst(h, docs, bad, k + 1,
                        [acc EXCEPT !.results = Append(@, [ok |-> FALSE, id |-> id.v,
                                                           msg |-> "engine failure"])])
             ELSE bulkLoop_keepFirst(h, docs, bad, k + 1,
                        [store |-> [i \in DOMAIN acc.store \cup {id.v} |->
                                       IF i \in DOMAIN acc.store THEN acc.store[i] ELSE doc],
                         results |-> Append(acc.results, [ok |-> TRUE, id |-> id.v])])

\* The loop of bulkDocuments inside the transaction: `k` is the index of the
\* next item, `bad` the indices whose put throws, `acc` the database and the
\* results so far.
RECURSIVE bulkLoop(_, _, _, _, _)
bulkLoop(h, docs, bad, k, acc) ==
    IF k > Len(docs) THEN acc
    ELSE LET doc == docs[k]
             id == doc["_id"]
         IN  IF falsy(id)
               THEN bulkLoop(h, docs, bad, k + 1,
                        [acc EXCEPT !.results = Append(@, [ok |-> FALSE, id |-> <<>>,
                                                           msg |-> "document missing _id"])])
             ELSE IF k \in bad
               THEN bulkLoop(h, docs, bad, k + 1,
                        [acc EXCEPT !.results = Append(@, [ok |-> FALSE, id |-> id.v,
                                                           msg |-> "engine failure"])])
             ELSE bulkLoop(h, docs, bad, k + 1,
                        [store |-> [i \in DOMAIN acc.store \cup {id.v} |->
                                       IF i = id.v THEN doc ELSE acc.store[i]],
                         results |-> Append(acc.results, [ok |-> TRUE, id |-> id.v])])

\* A transaction whose writes stay although the engine has aborted it.
transaction_kept(before, after, aborted) == after

\* db.transaction(callback): the databases after the callback's writes when
\* the engine commits, the databases as they were when it aborts.
transaction(before, after, aborted) == IF aborted THEN before ELSE after

bulkDocuments(dbName, docs, bad, fault) ==
    LET g == getDb(dbName, fault)
        done == bulkLoop(g.db, docs, bad, 1, [store |-> Contents(g.db), results |-> <<>>])
        written == [n \in DOMAIN g.regions \cup {g.db} |->
                       IF n = g.db THEN done.store ELSE g.regions[n]]
    IN  /\ call' = [op |-> "bulkDocuments", db |-> dbName, docs |-> docs]
        /\ UNCHANGED <<now, procs, queue>>
        /\ IF g.failed
             THEN /\ ret' = lmdbErrToHyperErr("bulkDocuments")
                  /\ UNCHANGED <<meta, dbs, regions, pending>>
           ELSE IF g.db = NoName
             THEN /\ ret' = HyperErr(404, "database not found")
                  /\ UNCHANGED <<meta, dbs, regions, pending>>
           ELSE IF fault = "txn"
             THEN /\ ret' = lmdbErrToHyperErr("bulkDocuments")
                  /\ dbs' = g.dbs
                  /\ regions' = transaction(g.regions, written, TRUE)
                  /\ UNCHANGED <<meta, pending>>
           ELSE   /\ dbs' = g.dbs
                  /\ regions' = transaction(g.regions, written, FALSE)
                  /\ meta' = Flush(meta, pending)
                  /\ pending' = {}
                  /\ ret' = [ok |-> TRUE, results |-> done.results]

----------------------------------------------------------------------------
(* Handlers that run concurrently.                                          *)
(*                                                                          *)
(* A handler runs without interruption up to its next await.  At            *)
(* `await getDb(...)` and `await resolveDbName(...)` no engine call is      *)
(* awaited: the handler goes on before any awaited write is settled, but    *)
(* other callers can start operations in between.  At an awaited write      *)
(* (put, remove, drop) the write is queued and the handler goes on after    *)
(* the engine has committed it; the engine commits the queued writes in the *)
(* order they were issued and settles their promises in that order.  Reads  *)
(* (get) see the committed writes only.                                     *)

\* The caller has an operation under way.
Active(p) == procs[p].pc \notin {"idle", "done"}

\* The caller's handler is suspended at an await that no engine call settles.
Micro(p) == procs[p].pc \in {"getDb_resolved", "getDb_return"}

\* The callers when p starts the operation `task`: p takes note of the callers
\* whose operation is under way, and each of them of p.
Begin(p, task) ==
    [q \in Procs |->
        IF q = p THEN [task EXCEPT !.with = {x \in Procs \ {p} : Active(x)}]
        ELSE IF Active(q) THEN [procs[q] EXCEPT !.with = @ \cup {p}]
        ELSE procs[q]]

Task(op, db, id, doc) == [Idle EXCEPT !.op = op, !.db = db, !.id = id, !.doc = doc]

\* The operation returns.
Finish(task, result) == [task EXCEPT !.pc = "done", !.ret = result]

\* A write handed to the engine by caller p, not yet committed; `result` is
\* what its promise resolves to (for a remove, whether a value was deleted).
Write(p, kind, target, id, value) ==
    [proc |-> p, write |-> kind, target |-> target, id |-> id, value |-> value,
     committed |-> FALSE, result |-> TRUE]

\* The engine commits the oldest write that is not committed, after the
\* removals queued before it.
commitWrite ==
    \E i \in 1..Len(queue) :
        /\ ~queue[i].committed
        /\ \A j \in 1..(i - 1) : queue[j].committed
        /\ LET w == queue[i]
           IN  /\ meta' = IF w.write = "metaPut"
                            THEN [k \in DOMAIN Flush(meta, pending) \cup {w.target} |->
                                     IF k = w.target THEN w.value ELSE meta[k]]
                          ELSE Flush(meta, pending)
               /\ regions' = CASE w.write = "put" -> put(regions, w.target, w.id, w.value)
                               [] w.write = "remove" -> remove(regions, w.target, w.id)
                               [] w.write = "drop" -> drop(regions, w.target)
                               [] OTHER -> regions
        /\ pending' = {}
        /\ queue' = [queue EXCEPT ![i].committed = TRUE,
                                  ![i].result = (queue[i].write = "remove") => docExists(queue[i].target, queue[i].id)]
        /\ UNCHANGED <<dbs, now, call, ret, procs>>

\* The write caller p awaits is settled: it is committed, the writes issued
\* before it are settled, and no handler is due to go on before.
Settled(p) ==
    /\ queue # <<>>
    /\ queue[1].proc = p
    /\ queue[1].committed
    /\ \A q \in Procs : ~Micro(q)

\* createDatabase up to `await meta.put(metaKey, dbInfo)`.
startCreateDatabase(p, n, r) ==
    LET metaKey == getMetaKey(n)
        actualName == generateId(now, r)
        dbInfo == [name |-> actualName, createdAt |-> now]
        task == Task("createDatabase", n, <<>>, EmptyDoc)
    IN  /\ ~Active(p)
        /\ IF metaHas(metaKey)
             THEN /\ procs' = Begin(p, Finish(task, HyperErr(409, "database already exists")))
                  /\ UNCHANGED queue
           ELSE   /\ procs' = Begin(p, [task EXCEPT !.pc = "createDatabase_put", !.name = actualName])
                  /\ queue' = Append(queue, Write(p, "metaPut", metaKey, <<>>, dbInfo))
        /\ UNCHANGED <<meta, dbs, regions, pending, now, call, ret>>

\* createDatabase after the put: the database is opened and cached.
endCreateDatabase(p) ==
    /\ procs[p].pc = "createDatabase_put"
    /\ Settled(p)
    /\ regions' = openDB(regions, procs[p].name)
    /\ dbs' = [a \in DOMAIN dbs \cup {procs[p].db} |->
                  IF a = procs[p].db THEN procs[p].name ELSE dbs[a]]
    /\ procs' = [procs EXCEPT ![p] = Finish(@, [ok |-> TRUE])]
    /\ queue' = Tail(queue)
    /\ UNCHANGED <<meta, pending, now, call, ret>>

\* removeDatabase up to `await db.drop()` or `await dbToDrop.drop()`.
startRemoveDatabase(p, n) ==
    LET metaKey == getMetaKey(n)
        task == Task("removeDatabase", n, <<>>, EmptyDoc)
    IN  /\ ~Active(p)
        /\ IF ~metaHas(metaKey)
             THEN /\ procs' = Begin(p, Finish(task, HyperErr(404, "database not found")))
                  /\ UNCHANGED <<queue, regions>>
           ELSE IF n \in DOMAIN dbs
             THEN /\ procs' = Begin(p, [task EXCEPT !.pc = "removeDatabase_drop",
                                                     !.name = dbs[n], !.cached = TRUE])
                  /\ queue' = Append(queue, Write(p, "drop", dbs[n], <<>>, <<>>))
                  /\ UNCHANGED regions
           ELSE   /\ procs' = Begin(p, [task EXCEPT !.pc = "removeDatabase_drop",
                                                     !.name = meta[metaKey].name])
                  /\ regions' = openDB(regions, meta[metaKey].name)
                  /\ queue' = Append(queue, Write(p, "drop", meta[metaKey].name, <<>>, <<>>))
        /\ UNCHANGED <<meta, dbs, pending, now, call, ret>>

\* removeDatabase after the drop: the cache entry is deleted when the handle
\* came from the cache, and meta.remove is called, not awaited.
endRemoveDatabase(p) ==
    /\ procs[p].pc = "removeDatabase_drop"
    /\ Settled(p)
    /\ dbs' = IF procs[p].cached THEN [a \in DOMAIN dbs \ {procs[p].db} |-> dbs[a]] ELSE dbs
    /\ pending' = pending \cup {getMetaKey(procs[p].db)}
    /\ procs' = [procs EXCEPT ![p] = Finish(@, [ok |-> TRUE])]
    /\ queue' = Tail(queue)
    /\ UNCHANGED <<meta, regions, now, call, ret>>

\* A document operation up to `await getDb(dbName)`, and getDb up to
\* `await resolveDbName(alias)` when the alias is not in the cache.
startDocument(p, op, dbName, id, doc) ==
    LET task == Task(op, dbName, id, doc)
    IN  /\ ~Active(p)
        /\ procs' =
              IF op = "createDocument" /\ isEmpty(doc)
                THEN Begin(p, Finish(task, HyperErr(400, "document empty")))
              ELSE IF dbName \in DOMAIN dbs
                THEN Begin(p, [task EXCEPT !.pc = "getDb_return", !.name = dbs[dbName]])
              ELSE Begin(p, [task EXCEPT !.pc = "getDb_resolved", !.name = resolveDbName(dbName)])
        /\ UNCHANGED <<meta, dbs, regions, pending, now, call, ret, queue>>

\* getDb after resolveDbName: null, or the database opened and cached.
openGetDb(p) ==
    /\ procs[p].pc = "getDb_resolved"
    /\ procs' = [procs EXCEPT ![p].pc = "getDb_return"]
    /\ IF procs[p].name = NoName
         THEN UNCHANGED <<dbs, regions>>
       ELSE /\ regions' = openDB(regions, procs[p].name)
            /\ dbs' = [a \in DOMAIN dbs \cup {procs[p].db} |->
                          IF a = procs[p].db THEN procs[p].name ELSE dbs[a]]
    /\ UNCHANGED <<meta, pending, now, call, ret, queue>>

\* createDocument after getDb, up to `await db.put(id, doc)`.
checkCreateDocument(p) ==
    LET t == procs[p]
    IN  /\ t.pc = "getDb_return"
        /\ t.op = "createDocument"
        /\ IF t.name = NoName
             THEN /\ procs' = [procs EXCEPT ![p] = Finish(@, HyperErr(404, "database not found"))]
                  /\ UNCHANGED queue
           ELSE IF docExists(t.name, t.id)
             THEN /\ procs' = [procs EXCEPT ![p] = Finish(@, HyperErr(409, "document conflict"))]
                  /\ UNCHANGED queue
           ELSE   /\ procs' = [procs EXCEPT ![p].pc = "createDocument_put"]
                  /\ queue' = Append(queue, Write(p, "put", t.name, t.id, t.doc))
        /\ UNCHANGED <<meta, dbs, regions, pending, now, call, ret>>

\* removeDocument after getDb, up to `await db.remove(id)`.
checkRemoveDocument(p) ==
    LET t == procs[p]
    IN  /\ t.pc = "getDb_return"
        /\ t.op = "removeDocument"
        /\ IF t.name = NoName
             THEN /\ procs' = [procs EXCEPT ![p] = Finish(@, HyperErr(404, "database not found"))]
                  /\ UNCHANGED queue
           ELSE IF ~docExists(t.name, t.id)
             THEN /\ procs' = [procs EXCEPT ![p] = Finish(@, HyperErr(404, "document not found"))]
                  /\ UNCHANGED queue
           ELSE   /\ procs' = [procs EXCEPT ![p].pc = "removeDocument_remove"]
                  /\ queue' = Append(queue, Write(p, "remove", t.name, t.id, <<>>))
        /\ UNCHANGED <<meta, dbs, regions, pending, now, call, ret>>

\* retrieveDocument after getDb.
getRetrieveDocument(p) ==
    LET t == procs[p]
    IN  /\ t.pc = "getDb_return"
        /\ t.op = "retrieveDocument"
        /\ procs' = [procs EXCEPT ![p] =
                        Finish(@, IF t.name = NoName THEN HyperErr(404, "database not found")
                                  ELSE IF ~docExists(t.name, t.id)
                                    THEN HyperErr(404, "document not found")
                                  ELSE get(t.name, t.id))]
        /\ UNCHANGED <<meta, dbs, regions, pending, now, call, ret, queue>>

\* createDocument after the put.
endCreateDocument(p) ==
    /\ procs[p].pc = "createDocument_put"
    /\ Settled(p)
    /\ procs' = [procs EXCEPT ![p] = Finish(@, [ok |-> TRUE, id |-> procs[p].id])]
    /\ queue' = Tail(queue)
    /\ UNCHANGED <<meta, dbs, regions, pending, now, call, ret>>

\* A removeDocument that returns 404 when its remove has deleted nothing.
endRemoveDocument_checked(p) ==
    /\ procs[p].pc = "removeDocument_remove"
    /\ Settled(p)
    /\ procs' = [procs EXCEPT ![p] = Finish(@, IF queue[1].result
                                                 THEN [ok |-> TRUE, id |-> procs[p].id]
                                               ELSE HyperErr(404, "document not found"))]
    /\ queue' = Tail(queue)
    /\ UNCHANGED <<meta, dbs, regions, pending, now, call, ret>>

\* removeDocument after the remove, whose result is not looked at.
endRemoveDocument(p) ==
    /\ procs[p].pc = "removeDocument_remove"
    /\ Settled(p)
    /\ procs' = [procs EXCEPT ![p] = Finish(@, [ok |-> TRUE, id |-> procs[p].id])]
    /\ queue' = Tail(queue)
    /\ UNCHANGED <<meta, dbs, regions, pending, now, call, ret>>

\* The adapter is constructed again over the environment, as after a restart
\* of the process: the queued removals are committed and the cache is empty.
Restart ==
    /\ \A p \in Procs : ~Active(p)
    /\ queue = <<>>
    /\ dbs # <<>>
    /\ dbs' = <<>>
    /\ meta' = Flush(meta, pending)
    /\ pending' = {}
    /\ procs' = [p \in Procs |-> Idle]
    /\ UNCHANGED <<regions, now, call, ret, queue>>

----------------------------------------------------------------------------
(* Specifications. *)

\* The inputs of the registry-centred specification: one identifier, one
\* document, one random suffix (names then differ by the clock alone).
OneId == <<1>>
SomeDoc == Doc(Str(OneId), Num(1), Absent)
SomeRand == CHOOSE r \in Rand : TRUE
AllDocs == Query(<<>>, <<>>, <<>>, 0, 0)

\* Namespace lifecycles over every alias, with every document operation of the
\* adapter on one document identifier; no engine call fails.
Next ==
    \/ Tick
    \/ CommitPending
    \/ \E n \in Aliases : createDatabase(n, SomeRand, "none")
    \/ \E n \in Aliases : removeDatabase(n, "none")
    \/ \E n \in Aliases, doc \in {EmptyDoc, SomeDoc} : createDocument(n, OneId, doc, "none")
    \/ \E n \in Aliases : retrieveDocument(n, OneId, "none")
    \/ \E n \in Aliases : updateDocument(n, OneId, SomeDoc, "none")
    \/ \E n \in Aliases : removeDocument(n, OneId, "none")
    \/ \E n \in Aliases : listDocuments(n, NoOpts, "none")
    \/ \E n \in Aliases : queryDocuments(n, AllDocs, "none")
    \/ \E n \in Aliases : indexDocuments(n, "a", <<"x">>, <<>>, "none")
    \/ \E n \in Aliases : bulkDocuments(n, <<SomeDoc>>, {}, "none")

Spec == Init /\ [][Next]_vars

\* The documents callers pass to bulkDocuments in the document-centred
\* specification: with an identifier and without one.
BulkItems == {withId(OneId, Doc(Absent, Num(3), Absent)), Doc(Absent, Num(3), Absent)}
BulkInputs == {<<d>> : d \in BulkItems}

\* Document operations over every identifier and document, where the engine
\* can fail, on one alias whose namespace is created and removed at will.
NextDocs ==
    \/ CommitPending
    \/ \E r \in Rand : createDatabase("a", r, "none")
    \/ removeDatabase("a", "none")
    \/ \E id \in Ids, doc \in DocInputs, fault \in {"none", "get", "open", "read", "put"} :
          createDocument("a", id, doc, fault)
    \/ \E id \in Ids, fault \in {"none", "get", "open", "read"} : retrieveDocument("a", id, fault)
    \/ \E id \in Ids, doc \in DocInputs, fault \in {"none", "get", "open", "put"} :
          updateDocument("a", id, doc, fault)
    \/ \E id \in Ids, fault \in {"none", "get", "open", "read", "remove"} :
          removeDocument("a", id, fault)
    \/ \E docs \in BulkInputs, bad \in {{}, {1}}, fault \in {"none", "get", "open", "txn"} :
          bulkDocuments("a", docs, bad, fault)

SpecDocs == Init /\ [][NextDocs]_vars

\* The inputs of the listing specification: identifiers of which one extends
\* another, limits 0..MaxLimit, and keys lists of one and of two identifiers.
MaxLimit == 2
ListIds == {<<1>>, <<2>>, <<2, 1>>, <<3>>}
ListDoc == Doc(Absent, Num(1), Absent)
KeyBounds == {<<>>, <<1>>, <<2>>}
KeysInputs == {<<>>, <<2>>, <<1, Comma, 2, 1>>}
ListInputs ==
    {ListOpts(limit, startkey, endkey, keys, descending) :
        limit \in 0..MaxLimit, startkey \in KeyBounds, endkey \in KeyBounds,
        keys \in KeysInputs, descending \in BOOLEAN}

\* Listings with every combination of options, and queries with every limit,
\* over one namespace whose documents are created and removed at will.
NextList ==
    \/ createDatabase("a", SomeRand, "none")
    \/ \E id \in ListIds : createDocument("a", id, ListDoc, "none")
    \/ \E id \in ListIds : removeDocument("a", id, "none")
    \/ \E o \in ListInputs, fault \in {"none", "range"} : listDocuments("a", o, fault)
    \/ \E n \in 0..MaxLimit : queryDocuments("a", Query(<<>>, <<>>, <<>>, n, 0), "none")

SpecList == Init /\ [][NextList]_vars

\* The inputs of the query specification: three identifiers; documents whose
\* field x is a number, a string, null or absent, one of them with a stored
\* `_id`; selectors with literal, null and operator conditions; sort lists of
\* one and two keys; field lists; limits 0..MaxLimit and skips 0..MaxSkip;
\* and queries that select on `_id`, sort by it and project on it.
MaxSkip == 1
QueryIds == {<<1>>, <<2>>, <<3>>}
QueryDocs ==
    {Doc(Str(<<3>>), Num(1), Null), Doc(Absent, Num(2), Num(1)), Doc(Absent, Str(<<1>>), Num(1)),
     Doc(Absent, Null, Absent), Doc(Absent, Absent, Num(1))}

On(f, cond) == [g \in {f} |-> cond]
Op1(op, operand) == Ops([o \in {op} |-> operand])
Op2(op1, operand1, op2, operand2) ==
    Ops([o \in {op1, op2} |-> IF o = op1 THEN operand1 ELSE operand2])

LiteralSelectors ==
    {<<>>, On("x", Lit(Num(1))), On("y", Lit(Num(1))), On("x", Lit(Str(<<1>>))),
     [f \in {"x", "y"} |-> IF f = "x" THEN Lit(Num(2)) ELSE Lit(Num(1))],
     [f \in {"x", "y"} |-> IF f = "x" THEN Lit(Num(1)) ELSE Lit(Num(1))]}
OperatorSelectors ==
    {On("x", Op1(op, Operand(v))) :
        op \in {"$eq", "$ne", "$gt", "$gte", "$lt", "$lte"}, v \in {Num(0), Num(1), Str(<<1>>)}}
    \cup {On("x", Op1(op, ArrayOperand(arr))) :
            op \in {"$in", "$nin"}, arr \in {<<Num(1), Null>>, <<Num(2)>>}}
    \cup {On(f, Op1("$exists", BoolOperand(b))) : f \in {"x", "y"}, b \in BOOLEAN}
    \cup {On("x", Op2("$gt", Operand(Num(0)), "$lt", Operand(Num(2)))),
          On("x", Op2("$gte", Operand(Num(1)), "$ne", Operand(Num(2))))}
NilSelectors == {On("x", NilCond), On("y", NilCond)}
\* Conditions that are objects without a recognised operator, such as {} or
\* a nested literal.
PlainObjectSelectors == {On("x", Ops(<<>>)), On("y", Ops(<<>>))}
IdSelectors == {On("_id", Lit(Str(<<1>>))), On("_id", Lit(Str(<<3>>))), On("_id", NilCond)}

Asc(f) == [field |-> f, direction |-> "ASC"]
Desc(f) == [field |-> f, direction |-> "DESC"]
SortInputs == {<<>>, <<Asc("x")>>, <<Desc("x")>>, <<Asc("y"), Asc("x")>>, <<Desc("y"), Asc("x")>>}
FieldInputs == {<<>>, <<"x">>, <<"_id", "y">>}

QueryInputs ==
    {Query(sel, <<>>, <<>>, 0, 0) : sel \in LiteralSelectors \cup OperatorSelectors \cup NilSelectors
                                            \cup PlainObjectSelectors}
    \cup {Query(<<>>, <<>>, sort, 0, 0) : sort \in SortInputs}
    \cup {Query(<<>>, fields, <<>>, 0, 0) : fields \in FieldInputs}
    \cup {Query(sel, <<"_id">>, <<Asc("_id")>>, 0, 0) : sel \in IdSelectors}
    \cup {Query(sel, fields, sort, limit, skip) :
            sel \in {<<>>, On("y", Lit(Num(1)))}, fields \in {<<>>, <<"y">>},
            sort \in {<<>>, <<Desc("x")>>}, limit \in 0..MaxLimit, skip \in 0..MaxSkip}

\* Queries and a plain listing over one namespace whose documents are written
\* and overwritten at will.
NextQuery ==
    \/ createDatabase("a", SomeRand, "none")
    \/ \E id \in QueryIds, doc \in QueryDocs : updateDocument("a", id, doc, "none")
    \/ \E q \in QueryInputs : queryDocuments("a", q, "none")
    \/ listDocuments("a", NoOpts, "none")

SpecQuery == Init /\ [][NextQuery]_vars

\* The longest list of documents callers pass to bulkDocuments.
MaxBatch == 3

\* The items of a batch: two with the identifier <<1>> and different values,
\* and one without _id.
BatchItems ==
    {withId(<<1>>, Doc(Absent, Num(1), Absent)), withId(<<1>>, Doc(Absent, Num(2), Num(1))),
     Doc(Absent, Num(1), Absent)}
BatchInputs == UNION {[1..k -> BatchItems] : k \in 0..MaxBatch}

\* The items whose put the engine refuses: none or the second.
BadInputs == {{}, {2}}

\* Batches of up to MaxBatch items on one alias, over a document stored before
\* by updateDocument; the engine can refuse the put of one item or abort the
\* transaction.
NextBulk ==
    \/ createDatabase("a", SomeRand, "none")
    \/ updateDocument("a", <<2>>, Doc(Absent, Num(3), Num(3)), "none")
    \/ \E docs \in BatchInputs, bad \in BadInputs : bulkDocuments("a", docs, bad, "none")
    \/ \E docs \in BatchInputs : bulkDocuments("a", docs, {}, "txn")

SpecBulk == Init /\ [][NextBulk]_vars

\* The engine calls that can fail in each operation.
RegistryFaults == {"none", "get", "put", "open", "drop", "remove", "commit"}
DocFaults == {"none", "get", "open", "read", "put", "remove", "range", "txn"}

\* The ten operations on one alias and one identifier, each with every engine
\* call of its own failing.
NextFaults ==
    \/ CommitPending
    \/ \E fault \in RegistryFaults : createDatabase("a", SomeRand, fault)
    \/ \E fault \in RegistryFaults : removeDatabase("a", fault)
    \/ \E doc \in {EmptyDoc, SomeDoc}, fault \in DocFaults : createDocument("a", OneId, doc, fault)
    \/ \E fault \in DocFaults : retrieveDocument("a", OneId, fault)
    \/ \E fault \in DocFaults : updateDocument("a", OneId, SomeDoc, fault)
    \/ \E fault \in DocFaults : removeDocument("a", OneId, fault)
    \/ \E fault \in DocFaults : listDocuments("a", NoOpts, fault)
    \/ \E fault \in DocFaults : queryDocuments("a", AllDocs, fault)
    \/ \E fault \in DocFaults : indexDocuments("a", "a", <<"x">>, <<>>, fault)
    \/ \E bad \in {{}, {1}}, fault \in DocFaults : bulkDocuments("a", <<SomeDoc>>, bad, fault)

SpecFaults == Init /\ [][NextFaults]_vars

\* The documents concurrent callers create.
ConcDocs == {Doc(Absent, Num(1), Absent), Doc(Absent, Num(2), Absent)}

\* Two callers on one alias and one identifier: each starts an operation when
\* it has none under way, and the handlers go on in any order their awaits
\* allow.
NextConc ==
    \/ commitWrite
    \/ CommitPending
    \/ Restart
    \/ \E p \in Procs, r \in Rand : startCreateDatabase(p, "a", r)
    \/ \E p \in Procs : endCreateDatabase(p)
    \/ \E p \in Procs : startRemoveDatabase(p, "a")
    \/ \E p \in Procs : endRemoveDatabase(p)
    \/ \E p \in Procs, doc \in ConcDocs : startDocument(p, "createDocument", "a", OneId, doc)
    \/ \E p \in Procs, op \in {"removeDocument", "retrieveDocument"} :
          startDocument(p, op, "a", OneId, EmptyDoc)
    \/ \E p \in Procs : openGetDb(p)
    \/ \E p \in Procs : checkCreateDocument(p)
    \/ \E p \in Procs : checkRemoveDocument(p)
    \/ \E p \in Procs : getRetrieveDocument(p)
    \/ \E p \in Procs : endCreateDocument(p)
    \/ \E p \in Procs : endRemoveDocument(p)

SpecConc == Init /\ [][NextConc]_vars

----------------------------------------------------------------------------
(* Properties. *)

\* The things an operation can return.
Ok == [ok |-> TRUE]
OkId(i) == [ok |-> TRUE, id |-> i]
NsNotFound == HyperErr(404, "database not found")
DocNotFound == HyperErr(404, "document not found")

\* A metadata record for the alias is stored.
HasRecord(a) == getMetaKey(a) \in DOMAIN meta

\* The documents stored under the internal name of the alias's record.
NsDocs(a) == IF meta[getMetaKey(a)].name \in DOMAIN regions
               THEN regions[meta[getMetaKey(a)].name] ELSE <<>>

\* C1: createDatabase returns 409 exactly when a metadata record for the alias
\* is stored when it is called; on 409 the records, the cache and the
\* documents are unchanged.
C1_ConflictIffRecord ==
    [][\A n \in Aliases :
          createDatabase(n, SomeRand, "none") =>
              /\ (ret' = HyperErr(409, "database already exists")) <=> HasRecord(n)
              /\ (ret' = HyperErr(409, "database already exists")) =>
                     UNCHANGED <<meta, dbs, regions, pending>>]_vars

\* C1: a createDatabase on an alias that is registered, cached and holds a
\* document has returned 409.
C1_Witness ==
    /\ call = [op |-> "createDatabase", db |-> "a"]
    /\ ret = HyperErr(409, "database already exists")
    /\ "a" \in DOMAIN dbs
    /\ HasRecord("a")
    /\ OneId \in DOMAIN NsDocs("a")

\* C2: when removeDatabase returns success, the metadata record and the cache
\* entry of the alias are gone, and a createDocument on the alias that follows
\* returns 404; on an alias with no record removeDatabase returns 404 and
\* changes nothing.
C2_RemovedIsGone ==
    [][\A n \in Aliases :
          /\ (removeDatabase(n, "none") /\ ret' = Ok) =>
                 (getMetaKey(n) \notin DOMAIN meta' /\ n \notin DOMAIN dbs')
          /\ (call = [op |-> "removeDatabase", db |-> n] /\ ret = Ok
                /\ createDocument(n, OneId, SomeDoc, "none")) => ret' = NsNotFound
          /\ (~HasRecord(n) /\ removeDatabase(n, "none")) =>
                 (ret' = NsNotFound /\ UNCHANGED <<meta, dbs, regions, pending>>)]_vars

\* C3: a createDatabase that follows a successful removeDatabase of the alias
\* succeeds, and the namespace it creates holds no document.
C3_RecreateSucceeds ==
    [][\A n \in Aliases :
          (call = [op |-> "removeDatabase", db |-> n] /\ ret = Ok
             /\ createDatabase(n, SomeRand, "none")) =>
                 (ret' = Ok /\ regions'[dbs'[n]] = <<>>)]_vars

\* C4: in a namespace with no document at i, createDocument(i, d) with a
\* non-empty d returns {ok: true, id: i}, and a retrieveDocument(i) that
\* follows returns d itself.
C4_CreateThenRetrieve ==
    [][\A i \in Ids, d \in DocInputs \ {EmptyDoc} :
          /\ (HasRecord("a") /\ i \notin DOMAIN NsDocs("a") /\ createDocument("a", i, d, "none"))
                 => ret' = OkId(i)
          /\ (call = [op |-> "createDocument", db |-> "a", id |-> i, doc |-> d] /\ ret = OkId(i)
                /\ retrieveDocument("a", i, "none")) => ret' = d]_vars

\* C4: a retrieveDocument that follows a successful createDocument has
\* returned the document created.
C4_Witness ==
    /\ call = [op |-> "retrieveDocument", db |-> "a", id |-> <<1, 1>>]
    /\ ret = Doc(Absent, Num(2), Num(1))
    /\ HasRecord("a")

\* C5: createDocument(i, d) with a non-empty d on a namespace that holds a
\* document at i, whoever wrote it, returns 409 and leaves every stored
\* document as it was.
C5_CreateNeverOverwrites ==
    [][\A i \in Ids, d \in DocInputs \ {EmptyDoc} :
          (HasRecord("a") /\ i \in DOMAIN NsDocs("a") /\ createDocument("a", i, d, "none")) =>
              (ret' = HyperErr(409, "document conflict") /\ UNCHANGED <<meta, regions>>)]_vars

\* C5: a createDocument has returned 409 on an identifier whose document was
\* written by bulkDocuments, while another was written by updateDocument.
C5_Witness ==
    /\ call.op = "createDocument"
    /\ ret = HyperErr(409, "document conflict")
    /\ HasRecord("a")
    /\ call.id \in DOMAIN NsDocs("a")
    /\ NsDocs("a")[call.id] = withId(call.id, Doc(Absent, Num(3), Absent))

\* C6: createDocument with an empty document on an existing namespace returns
\* 400 and writes nothing, whether or not a document is stored at the
\* identifier.
C6_EmptyIsBadRequest ==
    [][\A i \in Ids, fault \in {"none", "get", "open", "read", "put"} :
          (HasRecord("a") /\ createDocument("a", i, EmptyDoc, fault)) =>
              (ret' = HyperErr(400, "document empty")
                 /\ UNCHANGED <<meta, dbs, regions, pending>>)]_vars

\* C6: a createDocument with an empty document has returned 400 on an existing
\* namespace that holds no document at the identifier.
C6_Witness ==
    /\ call.op = "createDocument"
    /\ call.doc = EmptyDoc
    /\ ret = HyperErr(400, "document empty")
    /\ HasRecord("a")
    /\ "a" \in DOMAIN dbs
    /\ call.id \notin DOMAIN NsDocs("a")

\* C7: each document operation on an alias with no metadata record returns 404
\* and creates no record, no cache entry and no storage region.
C7_NoRecordIsNotFound ==
    [][\A n \in Aliases :
          (/\ ~HasRecord(n)
           /\ \/ createDocument(n, OneId, SomeDoc, "none")
              \/ retrieveDocument(n, OneId, "none")
              \/ updateDocument(n, OneId, SomeDoc, "none")
              \/ removeDocument(n, OneId, "none")
              \/ listDocuments(n, NoOpts, "none")
              \/ queryDocuments(n, AllDocs, "none")
              \/ indexDocuments(n, "a", <<"x">>, <<>>, "none")
              \/ bulkDocuments(n, <<SomeDoc>>, {}, "none")) =>
              (ret' = NsNotFound /\ UNCHANGED <<meta, dbs, regions>>)]_vars

\* C8: updateDocument(i, d) on an existing namespace returns {ok: true, id: i}
\* and the value stored at i afterwards is exactly d, whether or not a
\* document was stored at i before.
C8_UpdateReplaces ==
    [][\A i \in Ids, d \in DocInputs :
          (HasRecord("a") /\ updateDocument("a", i, d, "none")) =>
              (ret' = OkId(i) /\ regions'[dbs'["a"]][i] = d)]_vars

\* C8: an updateDocument has succeeded and its document, which lacks a field
\* that another stored document has, is what is stored.
C8_Witness ==
    /\ call.op = "updateDocument"
    /\ call.doc = Doc(Absent, Num(1), Absent)
    /\ ret = OkId(call.id)
    /\ HasRecord("a")
    /\ NsDocs("a")[call.id] = call.doc
    /\ \E j \in DOMAIN NsDocs("a") : has("y", NsDocs("a")[j])

\* C9: removeDocument(i) on a stored document returns {ok: true, id: i} and
\* removes that document alone, and a retrieveDocument(i) that follows returns
\* 404; removeDocument(i) with no document at i returns 404 and changes no
\* record and no document.
C9_RemoveDocument ==
    [][\A i \in Ids :
          /\ (HasRecord("a") /\ i \in DOMAIN NsDocs("a") /\ removeDocument("a", i, "none")) =>
                 /\ ret' = OkId(i)
                 /\ regions'[dbs'["a"]] = [j \in DOMAIN NsDocs("a") \ {i} |-> NsDocs("a")[j]]
          /\ (call = [op |-> "removeDocument", db |-> "a", id |-> i] /\ ret = OkId(i)
                /\ retrieveDocument("a", i, "none")) => ret' = DocNotFound
          /\ (HasRecord("a") /\ i \notin DOMAIN NsDocs("a") /\ removeDocument("a", i, "none")) =>
                 (ret' = DocNotFound /\ UNCHANGED meta /\ NsDocs("a")' = NsDocs("a"))]_vars

\* C9: a removeDocument has succeeded on a namespace that still holds another
\* document.
C9_Witness ==
    /\ call.op = "removeDocument"
    /\ ret = OkId(call.id)
    /\ HasRecord("a")
    /\ call.id \notin DOMAIN NsDocs("a")
    /\ NsDocs("a") # <<>>

\* The identifiers of a namespace up to e in key order, in ascending order.
UpTo(a, e) == SortKeys({k \in DOMAIN NsDocs(a) : LexLeq(k, e)})

\* C10: listDocuments with endkey e alone returns exactly the documents whose
\* identifier is at most e in key order, in ascending order.
C10_EndkeyInclusive ==
    [][\A e \in KeyBounds \ {<<>>} :
          (HasRecord("a") /\ listDocuments("a", ListOpts(0, <<>>, e, <<>>, FALSE), "none")) =>
              ret' = [ok |-> TRUE,
                      docs |-> [k \in 1..Len(UpTo("a", e)) |->
                                   withId(UpTo("a", e)[k], NsDocs("a")[UpTo("a", e)[k]])]]]_vars

\* The documents of a namespace at the identifiers ks, each with its
\* identifier merged in, as a listing returns them.
Listed(a, ks) == [k \in 1..Len(ks) |-> withId(ks[k], NsDocs(a)[ks[k]])]

\* The identifiers of a namespace from s on in key order, in ascending order.
From(a, s) == SortKeys({k \in DOMAIN NsDocs(a) : LexLeq(s, k)})

\* C11: listDocuments with startkey s alone returns exactly the documents
\* whose identifier is at least s in key order, in ascending order.
C11_StartkeyInclusive ==
    [][\A s \in KeyBounds \ {<<>>} :
          (HasRecord("a") /\ listDocuments("a", ListOpts(0, s, <<>>, <<>>, FALSE), "none")) =>
              ret' = [ok |-> TRUE, docs |-> Listed("a", From("a", s))]]_vars

\* C11: a listing from startkey <<2>> has returned the documents <<2>> and
\* <<2, 1>> and not the document <<1>>, which is stored too.
C11_Witness ==
    /\ call = [op |-> "listDocuments", db |-> "a", opts |-> ListOpts(0, <<2>>, <<>>, <<>>, FALSE)]
    /\ HasRecord("a")
    /\ DOMAIN NsDocs("a") = {<<1>>, <<2>>, <<2, 1>>}
    /\ ret = [ok |-> TRUE, docs |-> Listed("a", <<<<2>>, <<2, 1>>>>)]

\* The identifiers of a namespace between s and e, both inclusive, in
\* ascending order; an empty bound is no bound.
Between(a, s, e) ==
    SortKeys({k \in DOMAIN NsDocs(a) : (s = <<>> \/ LexLeq(s, k)) /\ (e = <<>> \/ LexLeq(k, e))})

\* C12: listDocuments with descending set returns the documents whose
\* identifier lies between startkey and endkey, both inclusive, in descending
\* order: the reverse of the ascending listing with the same bounds.
C12_DescendingReverses ==
    [][\A s \in KeyBounds, e \in KeyBounds :
          (HasRecord("a") /\ listDocuments("a", ListOpts(0, s, e, <<>>, TRUE), "none")) =>
              ret' = [ok |-> TRUE, docs |-> Reverse(Listed("a", Between("a", s, e)))]]_vars

\* The first n elements of a sequence, all of them if it has fewer.
FirstN(seq, n) == SubSeq(seq, 1, IF n < Len(seq) THEN n ELSE Len(seq))

\* The candidates of a listing: the documents that pass its range and its keys
\* filter, in iteration order.
Candidates(a, o) ==
    listLoop(meta[getMetaKey(a)].name,
             getRange(meta[getMetaKey(a)].name, o.startkey,
                      IF o.endkey # <<>> THEN Append(o.endkey, UFFFF) ELSE <<>>, o.descending),
             IF o.keys # <<>> THEN split(o.keys, Comma) ELSE <<>>, 0, <<>>)

\* C13: with a limit n >= 0, listDocuments returns exactly the first
\* min(n, number of candidates) candidates, and queryDocuments at most n
\* documents.
C13_LimitCaps ==
    [][\A n \in 0..MaxLimit :
          /\ \A o \in {i \in ListInputs : i.limit = n} :
                 (HasRecord("a") /\ listDocuments("a", o, "none")) =>
                     ret' = [ok |-> TRUE, docs |-> FirstN(Candidates("a", o), n)]
          /\ (HasRecord("a") /\ queryDocuments("a", Query(<<>>, <<>>, <<>>, n, 0), "none")) =>
                 Len(ret'.docs) <= n]_vars

\* The identifiers a keys list names.
KeySet(keys) == {split(keys, Comma)[i] : i \in 1..Len(split(keys, Comma))}

\* C14: listDocuments with a keys list and a range returns exactly the stored
\* documents whose identifier is in the list and between startkey and endkey,
\* both inclusive, once each and in key order.
C14_KeysAndRange ==
    [][\A s \in KeyBounds, e \in KeyBounds, keys \in KeysInputs \ {<<>>} :
          (/\ s # <<>> \/ e # <<>>
           /\ HasRecord("a")
           /\ listDocuments("a", ListOpts(0, s, e, keys, FALSE), "none")) =>
              ret' = [ok |-> TRUE,
                      docs |-> Listed("a", SortKeys({k \in DOMAIN NsDocs("a") :
                                   /\ k \in KeySet(keys)
                                   /\ s = <<>> \/ LexLeq(s, k)
                                   /\ e = <<>> \/ LexLeq(k, e)}))]]_vars

\* The stored value at identifier k with the field `_id` set to k.
Identified(a, k) == [NsDocs(a)[k] EXCEPT !["_id"] = Str(k)]

\* Every document of a namespace in ascending identifier order, each with its
\* `_id` set to its identifier.
AllIdentified(a) ==
    [i \in 1..Cardinality(DOMAIN NsDocs(a)) |-> Identified(a, SortKeys(DOMAIN NsDocs(a))[i])]

\* C15: every document that listDocuments or queryDocuments (without
\* projection) returns has the fields of the stored value and an `_id` equal
\* to the identifier it is stored under.
C15_IdIsIdentifier ==
    [][/\ (HasRecord("a") /\ listDocuments("a", NoOpts, "none")) =>
              ret' = [ok |-> TRUE, docs |-> AllIdentified("a")]
       /\ (HasRecord("a") /\ queryDocuments("a", AllDocs, "none")) =>
              ret' = [ok |-> TRUE, docs |-> AllIdentified("a")]]_vars

\* The order of two values of one type: numbers by magnitude, strings by
\* string order; values of different types, null and absent are not ordered.
TypedLess(v, x) ==
    \/ v.t = "num" /\ x.t = "num" /\ v.v[1] < x.v[1]
    \/ v.t = "str" /\ x.t = "str" /\ LexLess(v.v, x.v)

\* What each operator requires of the value v of the field.
OpHolds(op, v, operand) ==
    CASE op = "$eq" -> v = operand.v
      [] op = "$ne" -> v # operand.v
      [] op = "$gt" -> TypedLess(operand.v, v)
      [] op = "$gte" -> TypedLess(operand.v, v) \/ (v = operand.v /\ v.t \in {"num", "str"})
      [] op = "$lt" -> TypedLess(v, operand.v)
      [] op = "$lte" -> TypedLess(v, operand.v) \/ (v = operand.v /\ v.t \in {"num", "str"})
      [] op = "$in" -> \E i \in 1..Len(operand.arr) : operand.arr[i] = v
      [] op = "$nin" -> \A i \in 1..Len(operand.arr) : operand.arr[i] # v
      [] op = "$exists" -> operand.b = (v # Absent)

\* What a condition requires of the value v of the field.
CondHolds(cond, v) ==
    CASE cond.kind = "nil" -> v \in {Null, Absent}
      [] cond.kind = "lit" -> v = cond.val
      [] cond.kind = "ops" -> \A op \in DOMAIN cond.ops : OpHolds(op, v, cond.ops[op])

\* The document satisfies the condition of every field the selector names.
Satisfies(doc, sel) == \A f \in DOMAIN sel : CondHolds(sel[f], doc[f])

\* The documents of a namespace that satisfy a selector, in ascending
\* identifier order, as a query returns them.
Matching(a, sel) == Listed(a, SortKeys({k \in DOMAIN NsDocs(a) : Satisfies(NsDocs(a)[k], sel)}))

\* C16: a query whose selector holds an operator object returns exactly the
\* documents for whose value of the field every operator present holds.
C16_OperatorsHold ==
    [][(/\ call'.op = "queryDocuments"
        /\ call'.query.selector \in OperatorSelectors
        /\ HasRecord("a")
        /\ queryDocuments("a", Query(call'.query.selector, <<>>, <<>>, 0, 0), "none")) =>
           ret' = [ok |-> TRUE, docs |-> Matching("a", call'.query.selector)]]_vars

\* C17: a query with a selector of literal conditions returns exactly the
\* documents whose value of every field named in the selector is equal to the
\* literal given for it; an empty selector returns every document.
C17_SelectorIsConjunction ==
    [][(/\ call'.op = "queryDocuments"
        /\ call'.query.selector \in LiteralSelectors
        /\ HasRecord("a")
        /\ queryDocuments("a", Query(call'.query.selector, <<>>, <<>>, 0, 0), "none")) =>
           ret' = [ok |-> TRUE, docs |-> Matching("a", call'.query.selector)]]_vars

\* A query on two fields has returned one of three stored documents, and has
\* left out one that satisfies the condition on y only.
C17_Witness ==
    /\ call.op = "queryDocuments"
    /\ call.query = Query([x |-> Lit(Num(2)), y |-> Lit(Num(1))], <<>>, <<>>, 0, 0)
    /\ ret.ok
    /\ Len(ret.docs) = 1
    /\ Cardinality(DOMAIN NsDocs("a")) = 3
    /\ \E k \in DOMAIN NsDocs("a") : NsDocs("a")[k]["y"] = Num(1) /\ NsDocs("a")[k]["x"] # Num(2)

\* A sequence without its first n elements.
Drop(seq, n) == IF n >= Len(seq) THEN <<>> ELSE SubSeq(seq, n + 1, Len(seq))

\* The stages of a query in the order filter, sort, skip, limit, projection.
Pipeline(a, q) ==
    LET cut == FirstN(Drop(sortDocs(Matching(a, q.selector), q.sort), q.skip), q.limit)
    IN  [i \in 1..Len(cut) |-> projectFields(cut[i], q.fields)]

\* C18: a query with a limit of at least 1 returns the projection of the first
\* limit documents, after the first skip ones, of the sorted sequence of the
\* matching documents taken in ascending identifier order.
C18_StageOrder ==
    [][(/\ call'.op = "queryDocuments"
        /\ call'.query.limit >= 1
        /\ HasRecord("a")
        /\ queryDocuments("a", call'.query, "none")) =>
           ret' = [ok |-> TRUE, docs |-> Pipeline("a", call'.query)]]_vars

\* A query with every stage has returned the second of three matching
\* documents of the descending order, reduced to the field y.
C18_Witness ==
    /\ call.op = "queryDocuments"
    /\ call.query = Query(On("y", Lit(Num(1))), <<"y">>, <<Desc("x")>>, 1, 1)
    /\ ret.ok
    /\ Len(ret.docs) = 1
    /\ Len(Matching("a", call.query.selector)) = 3

\* The ascending order of two values of a sort key: a null or absent value
\* before a present one, numbers by magnitude, strings by string order.
KeyLess(v, w) ==
    \/ v \in {Null, Absent} /\ w \notin {Null, Absent}
    \/ TypedLess(v, w)

\* The order of two documents under a sort list from its k-th key on: that of
\* the first key on which their values differ, reversed when the key is DESC.
RECURSIVE Before(_, _, _, _)
Before(a, b, sort, k) ==
    IF k > Len(sort) THEN FALSE
    ELSE LET v == a[sort[k].field]
             w == b[sort[k].field]
         IN  IF v = w THEN Before(a, b, sort, k + 1)
             ELSE IF sort[k].direction = "DESC" THEN KeyLess(w, v)
             ELSE KeyLess(v, w)

\* The documents of a sequence that are equal to d on every sort key, in the
\* order of the sequence.
EqualOnKeys(seq, d, sort) ==
    LET Same(e) == \A k \in 1..Len(sort) : e[sort[k].field] = d[sort[k].field]
    IN  SelectSeq(seq, Same)

\* The number of times d occurs in a sequence.
Count(seq, d) == Cardinality({i \in 1..Len(seq) : seq[i] = d})

\* C19: the result of a query with a sort list is a permutation of the
\* matching documents in which no document comes after one that the sort
\* order puts after it, and documents equal on every sort key are in scan order.
C19_SortOrder ==
    [][(/\ call'.op = "queryDocuments"
        /\ call'.query.sort # <<>>
        /\ HasRecord("a")
        /\ queryDocuments("a", Query(<<>>, <<>>, call'.query.sort, 0, 0), "none")) =>
           LET scanned == Matching("a", <<>>)
               sort == call'.query.sort
           IN  /\ ret'.ok
               /\ \A i \in 1..Len(scanned) : Count(ret'.docs, scanned[i]) = Count(scanned, scanned[i])
               /\ Len(ret'.docs) = Len(scanned)
               /\ \A i, j \in 1..Len(ret'.docs) :
                      i < j => ~Before(ret'.docs[j], ret'.docs[i], sort, 1)
               /\ \A i \in 1..Len(scanned) :
                      EqualOnKeys(ret'.docs, scanned[i], sort) = EqualOnKeys(scanned, scanned[i], sort)]_vars

\* The field is one of the names of a fields list.
Named(f, fields) == \E i \in 1..Len(fields) : fields[i] = f

\* What the query returns when it is made without its fields list.
Unprojected(a, q) == runQuery(getDb(a, "none").db, [q EXCEPT !.fields = <<>>])

\* C20: a query with a non-empty fields list returns as many documents as the
\* same query without it, in the same order, each with exactly the named
\* fields that it has (null values included) and no other field, _id included.
C20_ProjectionKeepsNamed ==
    [][(/\ call'.op = "queryDocuments"
        /\ call'.query.fields # <<>>
        /\ HasRecord("a")
        /\ queryDocuments("a", call'.query, "none")) =>
           LET full == Unprojected("a", call'.query)
           IN  /\ ret'.ok
               /\ Len(ret'.docs) = Len(full)
               /\ \A i \in 1..Len(full) : \A f \in Fields :
                      ret'.docs[i][f] = IF Named(f, call'.query.fields) THEN full[i][f] ELSE Absent]_vars

\* A query for the field x alone has returned three documents: one with a
\* null x, without its _id, and one that has no field left.
C20_Witness ==
    /\ call.op = "queryDocuments"
    /\ call.query = Query(<<>>, <<"x">>, <<>>, 0, 0)
    /\ ret.ok
    /\ Len(ret.docs) = 3
    /\ \E i \in 1..Len(ret.docs) : ret.docs[i]["x"] = Null /\ ret.docs[i]["_id"] = Absent
    /\ \E i \in 1..Len(ret.docs) : ret.docs[i] = EmptyDoc
    /\ \E k \in DOMAIN NsDocs("a") : NsDocs("a")[k]["y"] # Absent

\* The item has an identifier: a non-empty string under _id.
HasIdentifier(item) == item["_id"].t = "str" /\ item["_id"].v # <<>>

\* The indices of the items of a batch that carry the identifier i.
Occurrences(docs, i) == {k \in 1..Len(docs) : docs[k]["_id"] = Str(i)}

\* The greatest element of a non-empty set of indices.
Last(S) == CHOOSE k \in S : \A j \in S : j <= k

\* The item of a batch that is stored for the identifier of item k: the last
\* item with that identifier whose put is not among the refused ones `bad`.
LastAccepted(docs, bad, k) ==
    docs[Last({j \in 1..Len(docs) \ bad : docs[j]["_id"] = docs[k]["_id"]})]

MissingIdReported(msg) ==
    (/\ call'.op = "bulkDocuments"
     /\ HasRecord("a")
     /\ bulkDocuments("a", call'.docs, {}, "none")) =>
        LET docs == call'.docs
            results == ret'.results
            before == NsDocs("a")
            stored == regions'[meta'[getMetaKey("a")].name]
            written == {docs[k]["_id"].v : k \in {j \in 1..Len(docs) : HasIdentifier(docs[j])}}
        IN  /\ ret'.ok
            /\ Len(results) = Len(docs)
            /\ \A k \in 1..Len(docs) :
                  IF HasIdentifier(docs[k])
                    THEN results[k] = OkId(docs[k]["_id"].v) /\ stored[docs[k]["_id"].v] = LastAccepted(docs, {}, k)
                  ELSE results[k] = [ok |-> FALSE, id |-> <<>>, msg |-> msg]
            /\ DOMAIN stored = DOMAIN before \cup written
            /\ \A i \in DOMAIN before \ written : stored[i] = before[i]

EngineFailure == HyperErr(500, "engine failure")

\* The step of the operation named in call' with the given engine call failing
\* (or, for bulkDocuments, with the put of the first item refused).
FaultyStep(fault) ==
    CASE call'.op = "createDatabase" -> createDatabase("a", SomeRand, fault)
      [] call'.op = "removeDatabase" -> removeDatabase("a", fault)
      [] call'.op = "createDocument" -> createDocument("a", OneId, call'.doc, fault)
      [] call'.op = "retrieveDocument" -> retrieveDocument("a", OneId, fault)
      [] call'.op = "updateDocument" -> updateDocument("a", OneId, SomeDoc, fault)
      [] call'.op = "removeDocument" -> removeDocument("a", OneId, fault)
      [] call'.op = "listDocuments" -> listDocuments("a", NoOpts, fault)
      [] call'.op = "queryDocuments" -> queryDocuments("a", AllDocs, fault)
      [] call'.op = "indexDocuments" -> indexDocuments("a", "a", <<"x">>, <<>>, fault)
      [] call'.op = "bulkDocuments" -> bulkDocuments("a", <<SomeDoc>>, IF fault = "item" THEN {1} ELSE {}, fault)
      [] OTHER -> FALSE

\* C24: every failure an operation returns has status 400, 404, 409 or 500
\* and a message; and a step in which an engine call has
\* failed (a step that is not the step of the same call with no failure)
\* returns status 500 with the engine's message, or, for the put of one item
\* of a batch, reports that message in the item's result.
C24_FailuresAreReturned ==
    [][/\ ("ok" \in DOMAIN ret' /\ ~ret'.ok) => (ret'.status \in {400, 404, 409, 500} /\ ret'.msg # "")
       /\ \A fault \in (RegistryFaults \cup DocFaults \cup {"item"}) \ {"none"} :
             (FaultyStep(fault) /\ ~FaultyStep("none")) =>
                 \/ ret' = EngineFailure
                 \/ /\ fault = "item"
                    /\ ret'.ok
                    /\ ret'.results[1] = [ok |-> FALSE, id |-> OneId, msg |-> "engine failure"]]_vars

\* The internal names of the metadata records of the aliases.
RecordNames == {meta[getMetaKey(a)].name : a \in {b \in Aliases : HasRecord(b)}}

\* C27: no two aliases have records with the same internal name, and the name
\* a successful createDatabase assigns is neither in a record nor the name
\* of a database of the environment.
C27_NamesAreUnique ==
    [][/\ \A a, b \in Aliases :
             (a # b /\ HasRecord(a) /\ HasRecord(b)) =>
                 meta[getMetaKey(a)].name # meta[getMetaKey(b)].name
       /\ \A n \in Aliases :
             (createDatabase(n, SomeRand, "none") /\ ret' = Ok) =>
                 generateId(now, SomeRand) \notin RecordNames \cup DOMAIN regions]_vars

\* C28: createDocument on an alias that has no metadata record returns 404,
\* whatever the identifier and the document, an empty document included.
C28_ResolvesBeforeValidating ==
    [][\A i \in Ids, d \in DocInputs :
          (~HasRecord("a") /\ createDocument("a", i, d, "none")) => ret' = NsNotFound]_vars

\* The operations of callers p and q were under way at the same time.
Overlap(p, q) == p # q /\ q \in procs[p].with /\ p \in procs[q].with

\* Callers p and q have both returned from the operation op on the same
\* alias and identifier, made at the same time.
BothDone(p, q, op) ==
    /\ Overlap(p, q)
    /\ procs[p].pc = "done" /\ procs[q].pc = "done"
    /\ procs[p].op = op /\ procs[q].op = op
    /\ procs[p].db = procs[q].db /\ procs[p].id = procs[q].id

\* C25: of two createDocument calls on the same namespace and identifier that
\* were under way at the same time, at most one has returned success.
C25_CreateIsAtomic ==
    \A p, q \in Procs :
        BothDone(p, q, "createDocument") => ~(procs[p].ret.ok /\ procs[q].ret.ok)

\* C26: of two createDatabase calls on the same alias that were under way at
\* the same time, at most one has returned success, and then the record and
\* the cached handle of the alias name the database that call opened.
C26_AliasIsUnique ==
    \A p, q \in Procs :
        BothDone(p, q, "createDatabase") =>
            /\ ~(procs[p].ret.ok /\ procs[q].ret.ok)
            /\ procs[p].ret.ok =>
                  /\ HasRecord(procs[p].db)
                  /\ procs[p].db \in DOMAIN dbs
                  /\ meta[getMetaKey(procs[p].db)].name = procs[p].name
                  /\ dbs[procs[p].db] = procs[p].name

\* C29: after every step, every alias in the cache has a metadata record and
\* its cached handle is the database the record names; and when a
\* removeDatabase returns success the cache holds no entry for its alias.
C29_CacheFollowsRecords ==
    [][/\ \A a \in DOMAIN dbs' :
             /\ getMetaKey(a) \in DOMAIN meta'
             /\ dbs'[a] = meta'[getMetaKey(a)].name
       /\ \A p \in Procs :
             (procs[p].pc = "removeDatabase_drop" /\ procs'[p].pc = "done") =>
                 procs[p].db \notin DOMAIN dbs']_vars

\* C30: the existence check of removeDocument and its delete are two steps:
\* a removeDocument that has passed its check returns success for its id
\* whatever has happened to the document since, so that two overlapping
\* calls for the same existing id can both pass the check and both succeed.
C30_RemoveIsNotAtomic ==
    [][\A p \in Procs :
          (procs[p].pc = "removeDocument_remove" /\ procs'[p].pc = "done") =>
              procs'[p].ret = OkId(procs[p].id)]_vars

\* Two overlapping removeDocument calls for the same id have both succeeded.
C30_Witness ==
    \E p, q \in Procs :
        /\ BothDone(p, q, "removeDocument")
        /\ procs[p].ret = OkId(procs[p].id)
        /\ procs[q].ret = OkId(procs[q].id)

\* The documents of a namespace whose field f is null or absent, in ascending
\* identifier order.
NullOrAbsent(a, f) ==
    Listed(a, SortKeys({k \in DOMAIN NsDocs(a) : NsDocs(a)[k][f] \in {Null, Absent}}))

\* C31: a query whose selector gives null (or undefined) for a field returns
\* exactly the documents in which the field is null or absent, and none in
\* which it has another value.
C31_NullMatchesNullOrAbsent ==
    [][\A f \in {"x", "y"} :
         (/\ call'.op = "queryDocuments"
          /\ call'.query = Query(On(f, NilCond), <<>>, <<>>, 0, 0)
          /\ HasRecord("a")
          /\ queryDocuments("a", call'.query, "none")) =>
             ret' = [ok |-> TRUE, docs |-> NullOrAbsent("a", f)]]_vars

\* A query for a null x has returned two of three stored documents: one whose
\* x is null and one without x, and not the one whose x is a number.
C31_Witness ==
    /\ call.op = "queryDocuments"
    /\ call.query = Query(On("x", NilCond), <<>>, <<>>, 0, 0)
    /\ ret.ok
    /\ Len(ret.docs) = 2
    /\ \E i, j \in 1..2 : ret.docs[i]["x"] = Null /\ ret.docs[j]["x"] = Absent
    /\ \E k \in DOMAIN NsDocs("a") : NsDocs("a")[k]["x"].t = "num"

\* The removal of the alias's record is queued and not yet committed.
BeingRemoved(b) == getMetaKey(b) \in pending

\* What listDocuments without options and queryDocuments without selector
\* answer for an alias in the current state.
Answers(b) ==
    LET g == getDb(b, "none")
    IN  IF g.db = NoName THEN [ok |-> FALSE, list |-> <<>>, docs |-> <<>>]
        ELSE [ok |-> TRUE,
              list |-> listLoop(g.db, getRange(g.db, <<>>, <<>>, FALSE), <<>>, 0, <<>>),
              docs |-> runQuery(g.db, AllDocs)]

\* C32: indexDocuments on an existing namespace succeeds, and a successful
\* indexDocuments stores the index record under the key of the index name and
\* changes nothing else: every other metadata entry that is not being removed
\* is kept as it was and none is added, even when the index name is an alias;
\* no document changes; listDocuments and queryDocuments answer as before for
\* every alias.
C32_IndexWritesOneRecord ==
    [][\A n \in Aliases :
         (call'.op = "indexDocuments" /\ call'.db = n) =>
            /\ (HasRecord(n) /\ ~BeingRemoved(n)) => ret' = Ok
            /\ ret' = Ok =>
                 /\ DOMAIN meta' = DOMAIN Flush(meta, pending) \cup {indexKey(call'.name)}
                 /\ meta'[indexKey(call'.name)].db = n
                 /\ \A k \in DOMAIN meta' \ {indexKey(call'.name)} : meta'[k] = meta[k]
                 /\ \A h \in DOMAIN regions \cup DOMAIN regions' : Contents(h)' = Contents(h)
                 /\ \A b \in Aliases : ~BeingRemoved(b) => Answers(b)' = Answers(b)]_vars

\* An index named "a" has been registered on the namespace "b" while the
\* namespace "a" exists and holds a document.
C32_Witness ==
    /\ call.op = "indexDocuments"
    /\ call.db = "b"
    /\ call.name = "a"
    /\ ret = Ok
    /\ meta[indexKey("a")].db = "b"
    /\ HasRecord("a")
    /\ NsDocs("a") # <<>>

\* C33: a batch none of whose puts the engine refuses is processed in input
\* order: every identifier of the batch holds afterwards the last item that
\* carries it, and the result at the position of each of its occurrences is
\* {ok: true, id}.
C33_LastOccurrenceWins ==
    [][(/\ call'.op = "bulkDocuments"
        /\ HasRecord("a")
        /\ bulkDocuments("a", call'.docs, {}, "none")) =>
           /\ "ok" \in DOMAIN ret' /\ ret'.ok
           /\ \A i \in {<<1>>, <<2>>} :
                Occurrences(call'.docs, i) # {} =>
                   /\ NsDocs("a")'[i] = call'.docs[Last(Occurrences(call'.docs, i))]
                   /\ \A k \in Occurrences(call'.docs, i) : ret'.results[k] = OkId(i)]_vars

\* A batch carrying the identifier <<1>> twice with different values has been
\* stored: both occurrences are reported ok and the second value is stored.
C33_Witness ==
    /\ call.op = "bulkDocuments"
    /\ Len(call.docs) >= 2
    /\ call.docs[1]["_id"] = Str(<<1>>)
    /\ call.docs[2]["_id"] = Str(<<1>>)
    /\ call.docs[1] # call.docs[2]
    /\ ret.ok
    /\ ret.results[1] = OkId(<<1>>)
    /\ ret.results[2] = OkId(<<1>>)
    /\ Len(call.docs) = 2
    /\ NsDocs("a")[<<1>>] = call.docs[2]

\* C34: a createDatabase that returns a failure leaves the registry as it was:
\* the metadata holds the records it held (those whose removal was queued
\* aside) and the cache is unchanged, so the alias has no record afterwards
\* unless it had one before.
C34_FailedCreateLeavesRegistry ==
    [][(call'.op = "createDatabase" /\ ~ret'.ok) =>
           /\ meta' \in {meta, Flush(meta, pending)}
           /\ dbs' = dbs
           /\ getMetaKey(call'.db) \in DOMAIN meta' => HasRecord(call'.db)]_vars

\* C35: a createDocument, updateDocument, removeDocument or bulkDocuments on
\* one alias leaves what listDocuments and queryDocuments answer for every
\* other alias as it was.
C35_NamespacesAreIsolated ==
    [][\A n, b \in Aliases :
         (/\ b # n
          /\ call'.op \in {"createDocument", "updateDocument", "removeDocument", "bulkDocuments"}
          /\ call'.db = n
          /\ ~BeingRemoved(b)) =>
             Answers(b)' = Answers(b)]_vars

\* The sign of an integer.
Sign(n) == IF n < 0 THEN -1 ELSE IF n > 0 THEN 1 ELSE 0

\* C36: for every two documents a sorted query compares, the comparator of
\* the query's sort list gives compare(a, b) and compare(b, a) opposite signs
\* or zero both, also when the sort field is null in one and absent in the
\* other.
C36_ComparatorIsAntisymmetric ==
    [][(/\ call'.op = "queryDocuments"
        /\ call'.query.sort # <<>>
        /\ HasRecord("a")
        /\ "ok" \in DOMAIN ret' /\ ret'.ok) =>
           \A i, j \in DOMAIN NsDocs("a") :
              LET a == withId(i, NsDocs("a")[i])
                  b == withId(j, NsDocs("a")[j])
              IN  Sign(compare(a, b, call'.query.sort, 1))
                     = 0 - Sign(compare(b, a, call'.query.sort, 1))]_vars

\* The identifiers of a namespace whose stored value satisfies the condition
\* on `_id`, in ascending order.
StoredIdMatches(a, cond) ==
    SortKeys({k \in DOMAIN NsDocs(a) : CondHolds(cond, NsDocs(a)[k]["_id"])})

\* C37: a query with a condition on `_id` returns the documents whose stored
\* value satisfies the condition in its own field `_id` (absent unless the
\* value was written with one), whatever their keys are; the sort on `_id`
\* and the projection on `_id` work on the documents with the identifier
\* merged in: the result is in the order of the merged `_id` and every
\* document of it carries its merged `_id`.
C37_SelectorReadsStoredValue ==
    [][(/\ call'.op = "queryDocuments"
        /\ call'.query.selector \in IdSelectors
        /\ HasRecord("a")
        /\ queryDocuments("a", call'.query, "none")) =>
           LET ks == StoredIdMatches("a", call'.query.selector["_id"])
               docs == ret'.docs
           IN  /\ ret'.ok
               /\ Len(docs) = Len(ks)
               /\ \A k \in 1..Len(ks) :
                     \E i \in 1..Len(docs) : docs[i]["_id"] = withId(ks[k], NsDocs("a")[ks[k]])["_id"]
               /\ \A i \in 1..Len(docs) :
                     /\ \E k \in 1..Len(ks) : docs[i]["_id"] = withId(ks[k], NsDocs("a")[ks[k]])["_id"]
                     /\ docs[i]["_id"].t = "str"
                     /\ \A j \in 1..Len(docs) : i < j => ~LexLess(docs[j]["_id"].v, docs[i]["_id"].v)]_vars

\* A query for the `_id` of a key under which a document is stored has
\* returned nothing, the stored value having no `_id`.
C37_Witness ==
    /\ call.op = "queryDocuments"
    /\ call.query.selector = On("_id", Lit(Str(<<1>>)))
    /\ ret.ok
    /\ ret.docs = <<>>
    /\ HasRecord("a")
    /\ <<1>> \in DOMAIN NsDocs("a")
    /\ ~has("_id", NsDocs("a")[<<1>>])

\* C38: a query whose selector gives for a field an object that holds none of
\* the recognised operators returns every document of the namespace, whatever
\* the document's value of the field is.
C38_PlainObjectMatchesAll ==
    [][(/\ call'.op = "queryDocuments"
        /\ call'.query.selector \in PlainObjectSelectors
        /\ HasRecord("a")
        /\ queryDocuments("a", call'.query, "none")) =>
           ret' = [ok |-> TRUE, docs |-> Listed("a", SortKeys(DOMAIN NsDocs("a")))]]_vars

\* A query with an object without operators for x has returned all three
\* stored documents: one whose x is a number, one whose x is null and one
\* without x.
C38_Witness ==
    /\ call.op = "queryDocuments"
    /\ call.query.selector = On("x", Ops(<<>>))
    /\ ret.ok
    /\ Len(ret.docs) = 3
    /\ {ret.docs[i]["x"].t : i \in 1..3} = {"num", "null", "absent"}

====
